---- MODULE Spec2Model ----
(***************************************************************************)
(* GovNavigator retrieval engine.                                          *)
(*                                                                         *)
(*   src/src/search/embeddings.py  cosine_similarity, EmbeddingSearchIndex *)
(*   src/src/search/index.py       tokenize, simple_stem, SearchIndex      *)
(*                                                                         *)
(* Two components that share no state: the embedding index, filled by the  *)
(* coroutine add_documents (one action per segment between two awaits),    *)
(* and the lexical TF-IDF index.  SpecEmb and SpecLex are the behaviours   *)
(* of each component alone, SpecPersist those with save and load on both   *)
(* kinds of index, Spec those of the whole program.                        *)
(***************************************************************************)
EXTENDS Integers, Sequences, FiniteSets, TLC

VARIABLES
    \* EmbeddingSearchIndex (embeddings.py:204-213)
    emb_documents,      \* self.documents
    emb_embeddings,     \* self.embeddings
    \* one invocation of add_documents (embeddings.py:215-264)
    add_input,          \* its argument documents
    add_batch_size,     \* its argument batch_size
    add_i,              \* the loop variable i
    add_pc,             \* where the coroutine stands
    add_error,          \* the exception that left add_documents, or "none"
    in_flight,          \* the embed calls issued and not yet completed
    call_outcome,       \* how the last embed call ended, "pending" while it runs
    batch_calls,        \* embed calls issued for the batch at add_i
    n_calls,            \* embed calls issued by this invocation
    n_failed,           \* embed calls that raised
    n_delays,           \* asyncio.sleep(25) started
    n_backoffs,         \* asyncio.sleep(30) started
    \* the last EmbeddingSearchIndex.search call
    emb_search,
    \* the file written by EmbeddingSearchIndex.save (embeddings.py:309-310)
    emb_file,
    \* SearchIndex (index.py:169-187)
    documents,          \* self.documents
    inverted_index,     \* self.inverted_index: term -> sequence of <<doc_id, tf>>
    doc_lengths,        \* self.doc_lengths
    idf_scores,         \* self.idf_scores
    num_docs,           \* self.num_docs
    \* the last call on the SearchIndex and what it returned
    lex_return,
    \* the file written by SearchIndex.save (index.py:381-382)
    lex_file,
    \* the last call of tokenize, simple_stem or _create_snippet on its own,
    \* with what it returned
    fn_call,
    \* the MCP server (server.py): the module-level search_index of line 60,
    \* which is None or the SearchIndex above
    search_index,
    \* the last tool call and the CallToolResult it returned
    tool_result,
    \* the number of times get_index has run SearchIndex.load (line 83)
    n_loads

emb_vars == <<emb_documents, emb_embeddings, add_input, add_batch_size, add_i, add_pc,
              add_error, in_flight, call_outcome, batch_calls, n_calls, n_failed,
              n_delays, n_backoffs, emb_search, emb_file>>

lex_vars == <<documents, inverted_index, doc_lengths, idf_scores, num_docs, lex_return,
              lex_file>>

txt_vars == <<fn_call>>

srv_vars == <<search_index, tool_result, n_loads>>

vars == <<emb_vars, lex_vars, txt_vars, srv_vars>>

\* what the steps of the embedding index, and of the lexical index, leave
not_emb_vars == <<lex_vars, txt_vars, srv_vars>>

not_lex_vars == <<emb_vars, txt_vars, srv_vars>>

-----------------------------------------------------------------------------
(* Bounds of the model. *)

\* add_documents is called with 0..MaxInput documents
MaxInput == 6
\* and a batch_size in 1..MaxBatch
MaxBatch == 3
\* a SearchIndex receives at most MaxDocs documents
MaxDocs == 3
\* where the index is saved and loaded, add_documents is called with
\* 0..PersistInput documents and a batch_size in 1..PersistBatch
PersistInput == 3
PersistBatch == 2

-----------------------------------------------------------------------------
(* Helpers. *)

Min(a, b) == IF a <= b THEN a ELSE b

Max(a, b) == IF a >= b THEN a ELSE b

Abs(a) == IF a >= 0 THEN a ELSE 0 - a

\* ceil(n / b) for n >= 0, b >= 1
CeilDiv(n, b) == (n + b - 1) \div b

\* text * n of Python: n copies of text
RECURSIVE Repeat(_, _)
Repeat(text, n) ==
    IF n <= 0 THEN ""
    ELSE IF n % 2 = 1 THEN text \o Repeat(text, n - 1)
    ELSE LET half == Repeat(text, n \div 2) IN half \o half

\* seq[:m] of Python, for any integer m
SliceTo(seq, m) ==
    IF m >= 0 THEN SubSeq(seq, 1, Min(m, Len(seq)))
    ELSE SubSeq(seq, 1, Max(0, Len(seq) + m))

-----------------------------------------------------------------------------
(* cosine_similarity, embeddings.py:50-86.                                 *)
(* Vectors are sequences of integers.  The quotient                        *)
(* dot / (sqrt(m1) * sqrt(m2)) is kept exactly, as the pair                *)
(* [num |-> dot, den2 |-> m1 * m2] that stands for num / sqrt(den2), and   *)
(* two scores are compared by cross-multiplying the signed squares.        *)

RECURSIVE SumTo(_, _)
SumTo(f, n) == IF n = 0 THEN 0 ELSE f[n] + SumTo(f, n - 1)

\* sum(a * b for a, b in zip(vec1, vec2)): zip stops at the shorter vector
DotProduct(vec1, vec2) ==
    LET n == Min(Len(vec1), Len(vec2))
    IN  SumTo([k \in 1..n |-> vec1[k] * vec2[k]], n)

\* sum(a * a for a in vec), the square of the magnitude
SquaredMagnitude(vec) == SumTo([k \in 1..Len(vec) |-> vec[k] * vec[k]], Len(vec))

ZeroScore == [num |-> 0, den2 |-> 1]

cosine_similarity(vec1, vec2) ==
    LET dot_product == DotProduct(vec1, vec2)
        m1 == SquaredMagnitude(vec1)
        m2 == SquaredMagnitude(vec2)
    IN  IF m1 = 0 \/ m2 = 0
        THEN ZeroScore
        ELSE [num |-> dot_product, den2 |-> m1 * m2]

\* a < b for two scores
ScoreLess(a, b) == a.num * Abs(a.num) * b.den2 < b.num * Abs(b.num) * a.den2

ScoreEq(a, b) == ~ScoreLess(a, b) /\ ~ScoreLess(b, a)

-----------------------------------------------------------------------------
(* The Embedder (VoyageEmbeddings, embeddings.py:89-182).  The vectors     *)
(* stand for the provider's answer: one per text, in the order of the      *)
(* texts.  Documents are identified by their position 1..n in the input.   *)

VectorOfText(d) == <<(d % 3) - 1, d % 2>>

embed_texts(texts) == [k \in 1..Len(texts) |-> VectorOfText(texts[k])]

\* the answers embed_query can give: the second has another dimension than
\* the stored vectors, the third is the zero vector
QueryVectors == {<<1, 0>>, <<1, 1, 1>>, <<0, 0>>}

\* outcomes of one embed call: it returns, it raises an exception whose text
\* contains "rate", or it raises another exception
EmbedOutcomes == {"ok", "rate", "other"}

-----------------------------------------------------------------------------
(* EmbeddingSearchIndex.add_documents, embeddings.py:215-264.              *)
(* add_pc:  "idle"       not called yet                                    *)
(*          "embed"      awaiting embed_texts, line 239                    *)
(*          "backoff"    awaiting asyncio.sleep(30), line 250              *)
(*          "retry"      awaiting embed_texts, line 252                    *)
(*          "delay"      awaiting asyncio.sleep(25), line 262              *)
(*          "done"       returned                                          *)
(*          "failed"     left by an exception of the embedder              *)
(*          "cancelled"  left by the cancellation of the task              *)

AwaitPoints == {"embed", "backoff", "retry", "delay"}

Halted == {"done", "failed", "cancelled"}

\* documents[i:], the slice without its upper end
BatchAtRest(docs, i, batch_size) == SubSeq(docs, i + 1, Len(docs))

\* documents[i:i + batch_size], with i counted from 0
BatchAt(docs, i, batch_size) ==
    SubSeq(docs, i + 1, Min(i + batch_size, Len(docs)))

\* the calls in flight once embed_texts is called for the batch at i
IssueCall(flight, i, batch) == flight \cup {[start |-> i, texts |-> batch]}

\* the call was started and never awaited: it stays in flight
KeepInFlight(flight, i) == flight

\* and once the await of that call is over (it returned or raised)
CompleteCall(flight, i) == {c \in flight : c.start # i}

\* self.documents.extend(batch), self.embeddings.extend(batch_embeddings)
ExtendDocuments(docs, batch) == docs \o batch

\* the vectors stored one short of the batch
ExtendEmbeddingsShort(embeddings, batch_embeddings) ==
    embeddings \o SubSeq(batch_embeddings, 1, Len(batch_embeddings) - 1)

ExtendEmbeddings(embeddings, batch_embeddings) == embeddings \o batch_embeddings

\* the test of line 260 with <= for <
MoreBatchesInclusive(i, batch_size, n) == i + batch_size <= n

\* line 260: is there a batch after the one at i
MoreBatches(i, batch_size, n) == i + batch_size < n

\* lines 228-239: the call, up to the first await
AddDocuments(docs, batch_size) ==
    /\ add_pc = "idle"
    /\ add_input' = docs
    /\ add_batch_size' = batch_size
    /\ add_i' = 0
    /\ IF Len(docs) > 0
       THEN /\ add_pc' = "embed"
            /\ in_flight' = IssueCall(in_flight, 0, BatchAt(docs, 0, batch_size))
            /\ call_outcome' = "pending"
            /\ batch_calls' = 1
            /\ n_calls' = n_calls + 1
       ELSE /\ add_pc' = "done"
            /\ UNCHANGED <<in_flight, call_outcome, batch_calls, n_calls>>
    /\ UNCHANGED <<emb_documents, emb_embeddings, add_error, n_failed, n_delays,
                   n_backoffs, emb_search, emb_file>>

\* lines 241-245 and 253-255, then 260-262: the batch is stored, and the
\* coroutine goes on to the next await or returns
StoreBatch ==
    LET batch == BatchAt(add_input, add_i, add_batch_size)
    IN  /\ emb_documents' = ExtendDocuments(emb_documents, batch)
        /\ emb_embeddings' = ExtendEmbeddings(emb_embeddings, embed_texts(batch))
        /\ in_flight' = CompleteCall(in_flight, add_i)
        /\ call_outcome' = "ok"
        /\ IF MoreBatches(add_i, add_batch_size, Len(add_input))
           THEN /\ add_pc' = "delay"
                /\ n_delays' = n_delays + 1
           ELSE /\ add_pc' = "done"
                /\ UNCHANGED n_delays

\* line 239 returns
EmbedReturns ==
    /\ add_pc = "embed"
    /\ StoreBatch
    /\ UNCHANGED <<add_input, add_batch_size, add_i, add_error, batch_calls, n_calls,
                   n_failed, n_backoffs, emb_search, emb_file>>

\* no exception is taken for a rate limit: the handler only re-raises
IsRateLimitNever(outcome) == FALSE

\* every exception is taken for a rate limit: the handler retries them all
IsRateLimitAlways(outcome) == TRUE

\* is the exception one that line 248 takes for a rate limit
IsRateLimit(outcome) == outcome = "rate"

\* line 239 raises: lines 247-250 or 256-257
EmbedRaises(outcome) ==
    /\ add_pc = "embed"
    /\ outcome # "ok"
    /\ n_failed' = n_failed + 1
    /\ in_flight' = CompleteCall(in_flight, add_i)
    /\ call_outcome' = outcome
    /\ IF IsRateLimit(outcome)
       THEN /\ add_pc' = "backoff"
            /\ n_backoffs' = n_backoffs + 1
            /\ UNCHANGED add_error
       ELSE /\ add_pc' = "failed"
            /\ add_error' = outcome
            /\ UNCHANGED n_backoffs
    /\ UNCHANGED <<emb_documents, emb_embeddings, add_input, add_batch_size, add_i,
                   batch_calls, n_calls, n_delays, emb_search, emb_file>>

\* line 250 is over: line 252 issues the call again
BackoffOver ==
    /\ add_pc = "backoff"
    /\ add_pc' = "retry"
    /\ in_flight' = IssueCall(in_flight, add_i, BatchAt(add_input, add_i, add_batch_size))
    /\ call_outcome' = "pending"
    /\ batch_calls' = batch_calls + 1
    /\ n_calls' = n_calls + 1
    /\ UNCHANGED <<emb_documents, emb_embeddings, add_input, add_batch_size, add_i,
                   add_error, n_failed, n_delays, n_backoffs, emb_search, emb_file>>

\* line 252 returns
RetryReturns ==
    /\ add_pc = "retry"
    /\ StoreBatch
    /\ UNCHANGED <<add_input, add_batch_size, add_i, add_error, batch_calls, n_calls,
                   n_failed, n_backoffs, emb_search, emb_file>>

\* line 252 raises, inside the handler: the exception leaves add_documents
RetryRaises(outcome) ==
    /\ add_pc = "retry"
    /\ outcome # "ok"
    /\ add_pc' = "failed"
    /\ add_error' = outcome
    /\ n_failed' = n_failed + 1
    /\ in_flight' = CompleteCall(in_flight, add_i)
    /\ call_outcome' = outcome
    /\ UNCHANGED <<emb_documents, emb_embeddings, add_input, add_batch_size, add_i,
                   batch_calls, n_calls, n_delays, n_backoffs, emb_search, emb_file>>

\* line 262 is over: the next turn of the loop, up to line 239
DelayOver ==
    /\ add_pc = "delay"
    /\ add_i' = add_i + add_batch_size
    /\ add_pc' = "embed"
    /\ in_flight' = IssueCall(in_flight, add_i + add_batch_size,
                              BatchAt(add_input, add_i + add_batch_size, add_batch_size))
    /\ call_outcome' = "pending"
    /\ batch_calls' = 1
    /\ n_calls' = n_calls + 1
    /\ UNCHANGED <<emb_documents, emb_embeddings, add_input, add_batch_size, add_error,
                   n_failed, n_delays, n_backoffs, emb_search, emb_file>>

\* the task is cancelled while it is suspended: CancelledError is raised at
\* the await and is no Exception, so line 247 does not catch it
Cancel ==
    /\ add_pc \in AwaitPoints
    /\ add_pc' = "cancelled"
    /\ add_error' = "cancelled"
    /\ in_flight' = CompleteCall(in_flight, add_i)
    /\ call_outcome' = IF add_pc \in {"embed", "retry"} THEN "cancelled" ELSE call_outcome
    /\ UNCHANGED <<emb_documents, emb_embeddings, add_input, add_batch_size, add_i,
                   batch_calls, n_calls, n_failed, n_delays, n_backoffs, emb_search, emb_file>>

-----------------------------------------------------------------------------
(* sorted(..., reverse=True) and list.sort(reverse=True): a stable sort,   *)
(* elements whose keys are equal keep the order they had in seq.           *)
(* below[j][k] says that the key of seq[j] is below the key of seq[k].      *)

\* the sort that reverses an ascending sort: equal keys come out in the
\* reverse of the order they had in seq
SortAscendingReversed(seq, below) ==
    LET n == Len(seq)
        Rank(k) == 1 + Cardinality({j \in 1..n : below[k][j]})
                     + Cardinality({j \in (k + 1)..n : ~below[j][k] /\ ~below[k][j]})
    IN  [p \in 1..n |-> seq[CHOOSE k \in 1..n : Rank(k) = p]]

StableSortDesc(seq, below) ==
    LET n == Len(seq)
        Rank(k) == 1 + Cardinality({j \in 1..n : below[k][j]})
                     + Cardinality({j \in 1..(k - 1) : ~below[j][k] /\ ~below[k][j]})
    IN  [p \in 1..n |-> seq[CHOOSE k \in 1..n : Rank(k) = p]]

-----------------------------------------------------------------------------
(* EmbeddingSearchIndex.search, embeddings.py:266-300.  The coroutine      *)
(* reads the index after its only await (embed_query, line 278), so the    *)
(* action is the segment that follows that await.  The score is kept       *)
(* unrounded.                                                              *)

NoSearch == [state |-> "none", query |-> <<>>, max_results |-> 0, results |-> <<>>]

\* the values of max_results the callers pass (5 is the default of line 266)
EmbMaxResults == {0, 2, 5}

\* the similarities above 0 only, as a score threshold would leave them
SimilaritiesAboveZero(query_embedding, embeddings) ==
    LET similarities == [i \in 1..Len(embeddings) |->
                            [doc_idx |-> i,
                             score |-> cosine_similarity(query_embedding, embeddings[i])]]
        below == [j \in 1..Len(embeddings) |-> [k \in 1..Len(embeddings) |->
                     ScoreLess(similarities[j].score, similarities[k].score)]]
        AboveZero(entry) == ScoreLess(ZeroScore, entry.score)
    IN  SelectSeq(StableSortDesc(similarities, below), AboveZero)

\* lines 281-287
Similarities(query_embedding, embeddings) ==
    LET similarities == [i \in 1..Len(embeddings) |->
                            [doc_idx |-> i,
                             score |-> cosine_similarity(query_embedding, embeddings[i])]]
        below == [j \in 1..Len(embeddings) |-> [k \in 1..Len(embeddings) |->
                     ScoreLess(similarities[j].score, similarities[k].score)]]
    IN  StableSortDesc(similarities, below)

\* lines 280-300
EmbSearchReturn(query_embedding, max_results) ==
    LET top == SliceTo(Similarities(query_embedding, emb_embeddings), max_results)
    IN  IF \E k \in 1..Len(top) : top[k].doc_idx > Len(emb_documents)
        THEN \* self.documents[doc_idx] raises IndexError
             [state |-> "raised", query |-> query_embedding,
              max_results |-> max_results, results |-> <<>>]
        ELSE [state |-> "returned", query |-> query_embedding,
              max_results |-> max_results,
              results |-> [k \in 1..Len(top) |->
                              [document |-> emb_documents[top[k].doc_idx],
                               doc_idx |-> top[k].doc_idx,
                               score |-> top[k].score]]]

EmbSearch(query_embedding, max_results) ==
    /\ emb_search' = EmbSearchReturn(query_embedding, max_results)
    /\ UNCHANGED <<emb_documents, emb_embeddings, add_input, add_batch_size, add_i,
                   add_pc, add_error, in_flight, call_outcome, batch_calls, n_calls,
                   n_failed, n_delays, n_backoffs, emb_file>>

\* embed_query raises (lines 178-179, or the HTTP client): search raises
EmbSearchEmbedderRaises(max_results) ==
    /\ emb_search' = [state |-> "raised", query |-> <<>>,
                      max_results |-> max_results, results |-> <<>>]
    /\ UNCHANGED <<emb_documents, emb_embeddings, add_input, add_batch_size, add_i,
                   add_pc, add_error, in_flight, call_outcome, batch_calls, n_calls,
                   n_failed, n_delays, n_backoffs, emb_file>>

-----------------------------------------------------------------------------
(* EmbeddingSearchIndex.save and load, embeddings.py:302-324.  json.dump   *)
(* writes the two lists, of documents and of lists of numbers, as arrays,  *)
(* and json.load reads arrays as lists and the numbers as they were        *)
(* written (a float is written by repr, which float reads back to the same *)
(* value).                                                                 *)

\* json.dump then json.load on the dictionary of lines 304-307
EmbJsonData == [documents |-> emb_documents, embeddings |-> emb_embeddings]

\* lines 302-312
EmbSave ==
    /\ emb_file' = [written |-> TRUE, data |-> EmbJsonData]
    /\ UNCHANGED <<emb_documents, emb_embeddings, add_input, add_batch_size, add_i,
                   add_pc, add_error, in_flight, call_outcome, batch_calls, n_calls,
                   n_failed, n_delays, n_backoffs, emb_search>>

\* lines 314-324: the index returned takes the place of the index in use,
\* on which no add_documents is running; open raises when the file does not
\* exist
EmbLoad ==
    /\ emb_file.written
    /\ add_pc \notin AwaitPoints
    /\ emb_documents' = emb_file.data.documents
    /\ emb_embeddings' = emb_file.data.embeddings
    /\ UNCHANGED <<add_input, add_batch_size, add_i, add_pc, add_error, in_flight,
                   call_outcome, batch_calls, n_calls, n_failed, n_delays, n_backoffs,
                   emb_search, emb_file>>

-----------------------------------------------------------------------------
(* tokenize and simple_stem, index.py:48-151.  Texts are strings; a        *)
(* character is a string of length one.                                    *)

STOP_WORDS == {
    "the", "a", "an", "and", "or", "but", "in", "on", "at", "to", "for",
    "of", "with", "by", "from", "as", "is", "was", "are", "were", "been",
    "be", "have", "has", "had", "do", "does", "did", "will", "would",
    "could", "should", "may", "might", "must", "shall", "can", "need",
    "this", "that", "these", "those", "it", "its", "they", "them", "their",
    "he", "she", "him", "her", "his", "we", "us", "our", "you", "your",
    "who", "which", "what", "where", "when", "why", "how", "all", "each",
    "any", "both", "more", "most", "other", "some", "such", "no", "nor",
    "not", "only", "own", "same", "so", "than", "too", "very", "just",
    "also", "now", "here", "there", "then", "if", "else", "because",
    "about", "into", "through", "during", "before", "after", "above",
    "below", "between", "under", "again", "further", "once", "upon"}

CharAt(text, i) == SubSeq(text, i, i)

UpperLetters == "ABCDEFGHIJKLMNOPQRSTUVWXYZ"

LowerLetters == "abcdefghijklmnopqrstuvwxyz"

Digits == "0123456789"

\* the characters \w matches, among those of the model's texts
WordChars ==
    {CharAt(UpperLetters, i) : i \in 1..Len(UpperLetters)}
        \cup {CharAt(LowerLetters, i) : i \in 1..Len(LowerLetters)}
        \cup {CharAt(Digits, i) : i \in 1..Len(Digits)}
        \cup {"_"}

\* the characters \s matches
WhiteSpace == {" ", "\t", "\n"}

LowerChar(c) ==
    IF \E i \in 1..Len(UpperLetters) : CharAt(UpperLetters, i) = c
    THEN CharAt(LowerLetters, CHOOSE i \in 1..Len(UpperLetters) : CharAt(UpperLetters, i) = c)
    ELSE c

\* the characters i to j of text in lower case; the text is halved, so that
\* the depth of the recursion is the logarithm of its length
RECURSIVE LowerFrom(_, _, _)
LowerFrom(text, i, j) ==
    IF i > j THEN ""
    ELSE IF i = j THEN LowerChar(CharAt(text, i))
    ELSE LET mid == (i + j) \div 2
         IN  LowerFrom(text, i, mid) \o LowerFrom(text, mid + 1, j)

\* str.lower()
lower(text) == LowerFrom(text, 1, Len(text))

\* the characters i to j of text, each character that is neither a word
\* character nor white space replaced by a space
RECURSIVE ReplaceFrom(_, _, _)
ReplaceFrom(text, i, j) ==
    IF i > j THEN ""
    ELSE IF i = j
         THEN (IF CharAt(text, i) \in WordChars \cup WhiteSpace THEN CharAt(text, i) ELSE " ")
    ELSE LET mid == (i + j) \div 2
         IN  ReplaceFrom(text, i, mid) \o ReplaceFrom(text, mid + 1, j)

\* re.sub(r"[^\w\s]", " ", text)
ReplaceNonWord(text) == ReplaceFrom(text, 1, Len(text))

\* the elements of a set of numbers in increasing order
InOrder(S) ==
    [k \in 1..Cardinality(S) |-> CHOOSE x \in S : Cardinality({y \in S : y < x}) = k - 1]

\* the positions where a maximal run of characters that are no white space
\* starts, and those where one ends
RunStarts(text) ==
    {i \in 1..Len(text) :
        /\ CharAt(text, i) \notin WhiteSpace
        /\ (i = 1 \/ CharAt(text, i - 1) \in WhiteSpace)}

RunEnds(text) ==
    {i \in 1..Len(text) :
        /\ CharAt(text, i) \notin WhiteSpace
        /\ (i = Len(text) \/ CharAt(text, i + 1) \in WhiteSpace)}

\* str.split(): the maximal runs of characters that are no white space
split(text) ==
    LET starts == InOrder(RunStarts(text))
        ends == InOrder(RunEnds(text))
    IN  [k \in 1..Len(starts) |-> SubSeq(text, starts[k], ends[k])]

\* [t for t in tokens if keep(t)], keep given as a set of tokens
RECURSIVE FilterSeq(_, _)
FilterSeq(seq, drop) ==
    IF seq = <<>> THEN <<>>
    ELSE (IF Head(seq) \in drop THEN <<>> ELSE <<Head(seq)>>) \o FilterSeq(Tail(seq), drop)

\* line 96 without "t not in STOP_WORDS"
tokenize_keeping_stop_words(text) ==
    LET tokens == split(ReplaceNonWord(lower(text)))
    IN  FilterSeq(tokens, {tokens[k] : k \in {j \in 1..Len(tokens) : Len(tokens[j]) <= 1}})

tokenize(text) ==
    LET tokens == split(ReplaceNonWord(lower(text)))
    IN  FilterSeq(tokens, STOP_WORDS
                            \cup {tokens[k] : k \in {j \in 1..Len(tokens) : Len(tokens[j]) <= 1}})

\* word.endswith(suffix)
EndsWith(word, suffix) ==
    /\ Len(word) >= Len(suffix)
    /\ SubSeq(word, Len(word) - Len(suffix) + 1, Len(word)) = suffix

\* word[:-n]
DropLast(word, n) == SubSeq(word, 1, Len(word) - n)

\* the suffixes of lines 123-146, in the order of the elif chain
Suffixes == <<"ing", "tion", "ment", "ness", "able", "ible", "ous", "ive", "ly", "ed",
              "er", "es">>

\* the chain of suffixes tried on every word longer than 3 characters
simple_stem_of_short_words(word) ==
    IF Len(word) > 3 /\ \E k \in 1..Len(Suffixes) : EndsWith(word, Suffixes[k])
    THEN LET k == CHOOSE j \in 1..Len(Suffixes) :
                     /\ EndsWith(word, Suffixes[j])
                     /\ \A h \in 1..(j - 1) : ~EndsWith(word, Suffixes[h])
         IN  DropLast(word, Len(Suffixes[k]))
    ELSE IF Len(word) > 3 /\ EndsWith(word, "s")
         THEN DropLast(word, 1)
         ELSE word

\* lines 101-151
simple_stem(word) ==
    IF Len(word) > 5 /\ \E k \in 1..Len(Suffixes) : EndsWith(word, Suffixes[k])
    THEN LET k == CHOOSE j \in 1..Len(Suffixes) :
                     /\ EndsWith(word, Suffixes[j])
                     /\ \A h \in 1..(j - 1) : ~EndsWith(word, Suffixes[h])
         IN  DropLast(word, Len(Suffixes[k]))
    ELSE IF Len(word) > 3 /\ EndsWith(word, "s")
         THEN DropLast(word, 1)
         ELSE word

\* [simple_stem(t) for t in tokens]
StemAll(tokens) == [k \in 1..Len(tokens) |-> simple_stem(tokens[k])]

-----------------------------------------------------------------------------
(* SearchIndex._create_snippet, index.py:324-359.  Positions count from 0, *)
(* as in the code.                                                         *)

\* context: int = 100, line 324
SnippetContext == 100

\* the length of the snippet when no query term occurs, line 359
SnippetFallback == 200

\* the truncation marker, lines 353-355 and 359
Ellipsis == "..."

\* str.find(term): the lowest position where term occurs in text, -1 if none
Find(text, term) ==
    LET found == {i \in 0..(Len(text) - Len(term)) :
                     SubSeq(text, i + 1, i + Len(term)) = term}
    IN  IF found = {} THEN -1 ELSE CHOOSE i \in found : \A h \in found : i <= h

\* text[start:end] for 0 <= start <= end <= len(text)
Slice(text, start, end) == SubSeq(text, start + 1, end)

\* str.strip()
Strip(text) ==
    LET kept == {i \in 1..Len(text) : CharAt(text, i) \notin WhiteSpace}
    IN  IF kept = {} THEN ""
        ELSE SubSeq(text, CHOOSE i \in kept : \A h \in kept : i <= h,
                          CHOOSE i \in kept : \A h \in kept : i >= h)

\* lines 345-356: the snippet around the occurrence of term at pos
SnippetAt(content, term, pos) ==
    LET start == Max(0, pos - SnippetContext)
        end == Min(Len(content), pos + Len(term) + SnippetContext)
        snippet == Slice(content, start, end)
        snippet1 == IF start > 0 THEN Ellipsis \o snippet ELSE snippet
        snippet2 == IF end < Len(content) THEN snippet1 \o Ellipsis ELSE snippet1
    IN  Strip(snippet2)

\* line 359
SnippetOfBeginning(content) ==
    IF Len(content) > SnippetFallback
    THEN Slice(content, 0, SnippetFallback) \o Ellipsis
    ELSE content

\* the term that anchors the snippet is the one that occurs first in content
FirstInContent(content_lower, query_terms) ==
    LET hits == {k \in 1..Len(query_terms) : Find(content_lower, lower(query_terms[k])) # -1}
    IN  IF hits = {} THEN 0
        ELSE CHOOSE k \in hits :
                 \A h \in hits :
                     \/ Find(content_lower, lower(query_terms[k]))
                            < Find(content_lower, lower(query_terms[h]))
                     \/ /\ Find(content_lower, lower(query_terms[k]))
                               = Find(content_lower, lower(query_terms[h]))
                        /\ k <= h

\* lines 343-345: the first term of query_terms, in their order, that occurs
\* in content_lower; 0 if none does
FirstHit(content_lower, query_terms) ==
    LET hits == {k \in 1..Len(query_terms) : Find(content_lower, lower(query_terms[k])) # -1}
    IN  IF hits = {} THEN 0 ELSE CHOOSE k \in hits : \A h \in hits : k <= h

\* lines 324-359
create_snippet(content, query_terms) ==
    LET content_lower == lower(content)
        k == FirstHit(content_lower, query_terms)
    IN  IF k # 0
        THEN SnippetAt(content, query_terms[k], Find(content_lower, lower(query_terms[k])))
        ELSE SnippetOfBeginning(content)

-----------------------------------------------------------------------------
(* Scores.  math.log and math.sqrt are tabulated in fixed point: LnTable[k]*)
(* is ln(k) in units of 1/10000 and SqrtTable[k] is sqrt(k) in units of    *)
(* 1/1000, so that a term score is in units of 1/100000.                   *)

LnTable == <<0, 6931, 10986, 13863, 16094, 17918, 19459, 20794, 21972, 23026,
             23979, 24849, 25649, 26391, 27081, 27726, 28332, 28904, 29444, 29957>>

SqrtTable == <<1000, 1414, 1732, 2000, 2236, 2449, 2646, 2828, 3000, 3162,
               3317, 3464, 3606, 3742, 3873, 4000, 4123, 4243, 4359, 4472>>

\* the logarithm of the inverse ratio, (df + 1) / (num_docs + 1)
IdfOfInverseRatio(n, df) == LnTable[df + 1] - LnTable[n + 1]

\* math.log((num_docs + 1) / (df + 1)), line 245
Idf(n, df) == LnTable[n + 1] - LnTable[df + 1]

\* the term score with idf = log((num_docs + 1) / (df + 1)) + 1, which is never 0
TermScoreSmoothedIdf(tf, idf, doc_length) ==
    (LnTable[1 + tf] * (idf + 10000)) \div SqrtTable[doc_length + 1]

\* (math.log(1 + tf) * idf) / math.sqrt(doc_length + 1), lines 290-294
TermScore(tf, idf, doc_length) == (LnTable[1 + tf] * idf) \div SqrtTable[doc_length + 1]

-----------------------------------------------------------------------------
(* SearchIndex, index.py:154-322.  Document ids count from 0, as in the    *)
(* code: document doc_id is documents[doc_id + 1] here.                    *)

\* the number of times x occurs in seq
Count(seq, x) == Cardinality({k \in 1..Len(seq) : seq[k] = x})

\* f"{doc.get('title', '')} {doc.get('title', '')} {doc.get('content', '')}"
IndexingText(doc) == doc.title \o " " \o doc.title \o " " \o doc.content

\* the posting of a document put in front of the postings of each of its terms
PrependPostings(index, doc_id, stemmed_tokens) ==
    LET terms == {stemmed_tokens[k] : k \in 1..Len(stemmed_tokens)}
    IN  [term \in DOMAIN index \cup terms |->
            IF term \in terms
            THEN <<(<<doc_id, Count(stemmed_tokens, term)>>)>>
                     \o (IF term \in DOMAIN index THEN index[term] ELSE <<>>)
            ELSE index[term]]

\* lines 210-217: one posting <<doc_id, count>> appended for each distinct term
AppendPostings(index, doc_id, stemmed_tokens) ==
    LET terms == {stemmed_tokens[k] : k \in 1..Len(stemmed_tokens)}
    IN  [term \in DOMAIN index \cup terms |->
            IF term \in terms
            THEN (IF term \in DOMAIN index THEN index[term] ELSE <<>>)
                     \o <<(<<doc_id, Count(stemmed_tokens, term)>>)>>
            ELSE index[term]]

\* the documents given to add_document
Documents == {
    [title |-> "Fence", content |-> "Fences - rules."],
    [title |-> "Noise", content |-> "Noises - rules."],
    [title |-> "The Noise of fences", content |-> "Fencing is noisy; the fenced yards."],
    [title |-> "", content |-> ""]}

\* the length to which get_ordinance_details cuts a content (server.py:306-307)
DetailsLimit == 5000

\* a content of n characters
ContentOfLength(n) == "Zoning rules. " \o Repeat("x", n - 14)

\* documents of the snapshot the server reads whose contents have the length
\* of line 306 and one character more
ExactDoc == [title |-> "Zoning Code", content |-> ContentOfLength(DetailsLimit)]

LongDoc == [title |-> "ZONING code appendix", content |-> ContentOfLength(DetailsLimit + 1)]

LongDocuments == {ExactDoc, LongDoc}

\* the queries that tokenize to nothing: the empty string, stop words only,
\* stop words with one-character tokens and punctuation
VacuousQueries == {"", "The of!", "a I ?"}

\* the queries given to search
Queries == VacuousQueries \cup
    {"noise fence", "fence FENCE noise", "rules rule fencing", "zoning"}

\* the values of max_results given to search (10 is the default of line 247)
LexMaxResults == {0, 1, 10}

\* the calls of search, <<query, max_results>>: every query with the default
\* max_results, and two queries that match several documents with the others
SearchCalls ==
    {<<query, 10>> : query \in Queries}
        \cup {<<query, max_results>> : query \in {"noise fence", "rules rule fencing"},
                                      max_results \in LexMaxResults}

\* the texts that reach tokenize: the indexing text of a document (line 204)
\* and the query of a search (line 265)
Texts == Queries \cup {IndexingText(d) : d \in Documents \cup LongDocuments}

\* tokenize, then simple_stem on every token (lines 205-208, 265-266); both
\* are pure functions of the text, so their values on Texts are computed once
StemTable == [text \in Texts |-> StemAll(tokenize(text))]

\* lines 265 and 313: the snippet of a result is made from the content of its
\* document and the tokens of the query, not stemmed; a pure function of the
\* two, so its values on the contents and queries are computed once
SnippetTable ==
    [content \in {doc.content : doc \in Documents \cup LongDocuments} |->
        [query \in Queries |-> create_snippet(content, tokenize(query))]]

\* the id of a document that enters a list of as many documents as docs
NextDocIdOneBased(docs) == Len(docs) + 1

\* line 199: doc_id = len(self.documents)
NextDocId(docs) == Len(docs)

\* the number of distinct terms of a document
DocLengthDistinct(stemmed_tokens) ==
    Cardinality({stemmed_tokens[k] : k \in 1..Len(stemmed_tokens)})

\* line 220: len(stemmed_tokens)
DocLength(stemmed_tokens) == Len(stemmed_tokens)

\* lines 189-223
add_document(doc) ==
    LET doc_id == NextDocId(documents)
        stemmed_tokens == StemTable[IndexingText(doc)]
    IN  /\ Len(documents) < MaxDocs
        /\ documents' = Append(documents, doc)
        /\ inverted_index' = AppendPostings(inverted_index, doc_id, stemmed_tokens)
        /\ doc_lengths' = Append(doc_lengths, DocLength(stemmed_tokens))
        /\ num_docs' = num_docs + 1
        /\ lex_return' = [op |-> "add_document", value |-> doc_id]
        /\ UNCHANGED <<idf_scores, lex_file>>

\* a table in which the terms that have an entry keep it
IdfScoresKeepingOld(index, scores, n) ==
    [term \in DOMAIN scores \cup DOMAIN index |->
        IF term \in DOMAIN scores THEN scores[term] ELSE Idf(n, Len(index[term]))]

\* lines 239-245: an entry is written for each term of the inverted index
IdfScores(index, scores, n) ==
    [term \in DOMAIN scores \cup DOMAIN index |->
        IF term \in DOMAIN index THEN Idf(n, Len(index[term])) ELSE scores[term]]

\* lines 225-245
build_idf_scores ==
    /\ idf_scores' = IdfScores(inverted_index, idf_scores, num_docs)
    /\ lex_return' = [op |-> "build_idf_scores"]
    /\ UNCHANGED <<documents, inverted_index, doc_lengths, num_docs, lex_file>>

\* doc_scores and doc_matched_terms, lines 273-274: order is the order in
\* which the keys entered doc_scores, the order doc_scores.items() yields
NoScores == [order |-> <<>>, scores |-> <<>>, matched |-> <<>>]

\* the accumulation that records only the first stem that reaches a document
AddScoreFirstStem(acc, doc_id, score, stem) ==
    IF \E k \in 1..Len(acc.order) : acc.order[k] = doc_id
    THEN LET k == CHOOSE j \in 1..Len(acc.order) : acc.order[j] = doc_id
         IN  [acc EXCEPT !.scores[k] = @ + score]
    ELSE [order |-> Append(acc.order, doc_id),
          scores |-> Append(acc.scores, 0 + score),
          matched |-> Append(acc.matched, {stem})]

\* lines 296-297, on dictionaries made by defaultdict
AddScore(acc, doc_id, score, stem) ==
    IF \E k \in 1..Len(acc.order) : acc.order[k] = doc_id
    THEN LET k == CHOOSE j \in 1..Len(acc.order) : acc.order[j] = doc_id
         IN  [acc EXCEPT !.scores[k] = @ + score, !.matched[k] = @ \cup {stem}]
    ELSE [order |-> Append(acc.order, doc_id),
          scores |-> Append(acc.scores, 0 + score),
          matched |-> Append(acc.matched, {stem})]

\* lines 284-297: the postings of one stem, from the k-th on
\* the SearchIndex on which a method runs
self ==
    [documents |-> documents, inverted_index |-> inverted_index,
     doc_lengths |-> doc_lengths, idf_scores |-> idf_scores, num_docs |-> num_docs]

RECURSIVE ScorePostings(_, _, _, _, _, _)
ScorePostings(index, acc, stem, idf, postings, k) ==
    IF k > Len(postings) THEN acc
    ELSE LET doc_id == postings[k][1]
             tf == postings[k][2]
             score == TermScore(tf, idf, index.doc_lengths[doc_id + 1])
         IN  ScorePostings(index, AddScore(acc, doc_id, score, stem), stem, idf, postings,
                           k + 1)

\* a weight of ln 2 for the stems that have no entry
GetIdfDefaultLn2(scores, stem) == IF stem \in DOMAIN scores THEN scores[stem] ELSE LnTable[2]

\* line 281: self.idf_scores.get(stem, 0)
GetIdf(scores, stem) == IF stem \in DOMAIN scores THEN scores[stem] ELSE 0

\* lines 277-297: the stems of the query, from the k-th on
RECURSIVE ScoreStems(_, _, _, _)
ScoreStems(index, acc, query_stems, k) ==
    IF k > Len(query_stems) THEN acc
    ELSE LET stem == query_stems[k]
         IN  IF stem \notin DOMAIN index.inverted_index
             THEN ScoreStems(index, acc, query_stems, k + 1)
             ELSE LET idf == GetIdf(index.idf_scores, stem)
                  IN  ScoreStems(index,
                                 ScorePostings(index, acc, stem, idf,
                                               index.inverted_index[stem], 1),
                                 query_stems, k + 1)

\* defaultdict(list).__getitem__ (line 178): a key that is missing enters the
\* dictionary with an empty list
GetItem(index, term) ==
    IF term \in DOMAIN index THEN index
    ELSE [t \in DOMAIN index \cup {term} |-> IF t = term THEN <<>> ELSE index[t]]

\* the inverted index after a loop that reads self.inverted_index[stem] for
\* every stem of the query, from the k-th on
RECURSIVE IndexAfterReadingAll(_, _, _)
IndexAfterReadingAll(index, query_stems, k) ==
    IF k > Len(query_stems) THEN index
    ELSE IndexAfterReadingAll(GetItem(index, query_stems[k]), query_stems, k + 1)

\* lines 277-284: the inverted index after the loop over the stems of the
\* query, from the k-th on; self.inverted_index[stem] is read on line 284,
\* after the test of line 278
RECURSIVE IndexAfterSearch(_, _, _)
IndexAfterSearch(index, query_stems, k) ==
    IF k > Len(query_stems) THEN index
    ELSE LET stem == query_stems[k]
         IN  IF stem \notin DOMAIN index
             THEN IndexAfterSearch(index, query_stems, k + 1)
             ELSE IndexAfterSearch(GetItem(index, stem), query_stems, k + 1)

\* the stems without their repetitions, in the order of their first occurrence
RECURSIVE Distinct(_)
Distinct(seq) ==
    IF seq = <<>> THEN <<>>
    ELSE LET rest == Distinct(SubSeq(seq, 1, Len(seq) - 1))
             last == seq[Len(seq)]
         IN  IF \E k \in 1..Len(rest) : rest[k] = last THEN rest ELSE Append(rest, last)

\* the loop of line 277 over the distinct stems only
AccumulateDistinct(index, query_stems) ==
    ScoreStems(index, NoScores, Distinct(query_stems), 1)

\* lines 273-297
Accumulate(index, query_stems) == ScoreStems(index, NoScores, query_stems, 1)

\* doc_scores.items()[:max_results], the documents in the order in which
\* they entered doc_scores
RankedDocsUnsorted(acc, max_results) ==
    LET n == Len(acc.order)
        items == [k \in 1..n |-> [doc_id |-> acc.order[k], score |-> acc.scores[k],
                                  matched_terms |-> acc.matched[k]]]
    IN  SliceTo(items, max_results)

\* lines 300-304: sorted(doc_scores.items(), key=lambda x: x[1], reverse=True)
RankedDocs(acc, max_results) ==
    LET n == Len(acc.order)
        items == [k \in 1..n |-> [doc_id |-> acc.order[k], score |-> acc.scores[k],
                                  matched_terms |-> acc.matched[k]]]
        below == [j \in 1..n |-> [k \in 1..n |-> items[j].score < items[k].score]]
    IN  SliceTo(StableSortDesc(items, below), max_results)

\* lines 264-322, the list returned; the score is kept unrounded, and
\* doc_id is the id of the document, which the code does not return
SearchResultsOf(index, query, max_results) ==
    LET query_stems == StemTable[query]
    IN  IF query_stems = <<>>
        THEN <<>>
        ELSE LET ranked_docs == RankedDocs(Accumulate(index, query_stems), max_results)
             IN  [k \in 1..Len(ranked_docs) |->
                     [document |-> index.documents[ranked_docs[k].doc_id + 1],
                      doc_id |-> ranked_docs[k].doc_id,
                      score |-> ranked_docs[k].score,
                      matched_terms |-> ranked_docs[k].matched_terms,
                      snippet |-> SnippetTable[index.documents[ranked_docs[k].doc_id + 1]
                                                   .content][query]]]

\* self.search(query, max_results)
SearchResults(query, max_results) == SearchResultsOf(self, query, max_results)

\* lines 247-322
search(query, max_results) ==
    /\ lex_return' = [op |-> "search", query |-> query, max_results |-> max_results,
                      results |-> SearchResults(query, max_results)]
    /\ inverted_index' = IndexAfterSearch(inverted_index, StemTable[query], 1)
    /\ UNCHANGED <<documents, doc_lengths, idf_scores, num_docs, lex_file>>

\* json.dump then json.load on a tuple: the tuple is written as an array, and
\* an array is read as a list
JsonTuple(tuple) == [list |-> tuple]

\* the data of a file into which the IDF table is not written
JsonDataWithoutIdfScores ==
    [documents |-> documents,
     inverted_index |-> [term \in DOMAIN inverted_index |->
                            [k \in 1..Len(inverted_index[term]) |->
                                JsonTuple(inverted_index[term][k])]],
     idf_scores |-> <<>>,
     doc_lengths |-> doc_lengths,
     num_docs |-> num_docs]

\* json.dump then json.load on the dictionary of lines 373-379: lists, strings
\* and numbers are read as they were written (a float is written by repr,
\* which float reads back to the same value), the postings are tuples
JsonData ==
    [documents |-> documents,
     inverted_index |-> [term \in DOMAIN inverted_index |->
                            [k \in 1..Len(inverted_index[term]) |->
                                JsonTuple(inverted_index[term][k])]],
     idf_scores |-> idf_scores,
     doc_lengths |-> doc_lengths,
     num_docs |-> num_docs]

\* no file has been written
NoFile == [written |-> FALSE]

\* lines 361-384
save ==
    /\ lex_file' = [written |-> TRUE, data |-> JsonData]
    /\ lex_return' = [op |-> "save"]
    /\ UNCHANGED <<documents, inverted_index, doc_lengths, idf_scores, num_docs>>

\* tuple(x), line 404
Tuple(x) == x.list

\* lines 403-406
LoadInvertedIndex(data) ==
    [term \in DOMAIN data.inverted_index |->
        [k \in 1..Len(data.inverted_index[term]) |-> Tuple(data.inverted_index[term][k])]]

\* lines 386-410: the index returned takes the place of the index in use;
\* open raises when the file does not exist
load ==
    /\ lex_file.written
    /\ documents' = lex_file.data.documents
    /\ inverted_index' = LoadInvertedIndex(lex_file.data)
    /\ idf_scores' = lex_file.data.idf_scores
    /\ doc_lengths' = lex_file.data.doc_lengths
    /\ num_docs' = lex_file.data.num_docs
    /\ lex_return' = [op |-> "load"]
    /\ UNCHANGED lex_file

-----------------------------------------------------------------------------
(* The specifications. *)

\* the calls of add_documents: <<number of documents, batch_size>>, every
\* one within the bounds and the 12 documents in batches of 5 of the
\* ingestion scenario
AddDocumentsCalls ==
    {<<n, b>> : n \in 0..MaxInput, b \in 1..MaxBatch} \cup {<<12, 5>>}

EmbInit ==
    /\ emb_documents = <<>>
    /\ emb_embeddings = <<>>
    /\ add_input = <<>>
    /\ add_batch_size = 1
    /\ add_i = 0
    /\ add_pc = "idle"
    /\ add_error = "none"
    /\ in_flight = {}
    /\ call_outcome = "none"
    /\ batch_calls = 0
    /\ n_calls = 0
    /\ n_failed = 0
    /\ n_delays = 0
    /\ n_backoffs = 0
    /\ emb_search = NoSearch
    /\ emb_file = [written |-> FALSE]

\* SearchIndex.__init__, lines 169-187
LexInit ==
    /\ documents = <<>>
    /\ inverted_index = <<>>
    /\ doc_lengths = <<>>
    /\ idf_scores = <<>>
    /\ num_docs = 0
    /\ lex_return = [op |-> "__init__"]
    /\ lex_file = NoFile

\* no call yet
TxtInit == fn_call = [op |-> "none"]

\* server.py:60: search_index = None
SrvInit ==
    /\ search_index = "None"
    /\ tool_result = [name |-> "none", kind |-> "none"]
    /\ n_loads = 0

Init == EmbInit /\ LexInit /\ TxtInit /\ SrvInit

EmbNext ==
    \/ \E call \in AddDocumentsCalls :
          AddDocuments([d \in 1..call[1] |-> d], call[2]) /\ UNCHANGED not_emb_vars
    \/ EmbedReturns /\ UNCHANGED not_emb_vars
    \/ \E outcome \in EmbedOutcomes : EmbedRaises(outcome) /\ UNCHANGED not_emb_vars
    \/ BackoffOver /\ UNCHANGED not_emb_vars
    \/ RetryReturns /\ UNCHANGED not_emb_vars
    \/ \E outcome \in EmbedOutcomes : RetryRaises(outcome) /\ UNCHANGED not_emb_vars
    \/ DelayOver /\ UNCHANGED not_emb_vars
    \/ Cancel /\ UNCHANGED not_emb_vars
    \/ \E q \in QueryVectors, m \in EmbMaxResults : EmbSearch(q, m) /\ UNCHANGED not_emb_vars
    \/ \E m \in EmbMaxResults : EmbSearchEmbedderRaises(m) /\ UNCHANGED not_emb_vars

SpecEmb == Init /\ [][EmbNext]_vars

LexNext ==
    \/ \E doc \in Documents : add_document(doc) /\ UNCHANGED not_lex_vars
    \/ build_idf_scores /\ UNCHANGED not_lex_vars
    \/ \E call \in SearchCalls : search(call[1], call[2]) /\ UNCHANGED not_lex_vars
    \/ save /\ UNCHANGED not_lex_vars
    \/ load /\ UNCHANGED not_lex_vars

SpecLex == Init /\ [][LexNext]_vars

\* The texts given to tokenize on its own: those of the index, and texts
\* with punctuation, digits, underscores, capitals, tabs and line ends.
TokenizeInputs ==
    Texts \cup
    {"Can I build a 6-foot fence?", "zoning_code, R-1", "A_B c__d _ __ x",
     "  lead\ttrail\n ", "Noise!!!Fence", "10PM 4x4 it's", "THE Parking; the the permit"}

\* The words given to simple_stem on its own: each suffix of the chain on
\* words above and below its length, words with two suffixes, words in s.
StemInputs ==
    {"fencing", "being", "string", "station", "nation", "payment", "moment", "fitness",
     "usable", "visible", "famous", "native", "likely", "family", "walked", "needed",
     "worker", "fences", "houses", "buses", "glass", "class", "boss", "gas", "bus",
     "dogs", "is", "fence", "meeting", "mentioning", "nations", "blessed", "process",
     "address", "goodness", "glasses", "actions", "lovingly", "tables", "runs", "a",
     "zoning", "rules", "noises", "signed", "bed", "sing", "123s", "snake_case",
     "passes", "singing", "cities", ""}

\* The contents given to _create_snippet on its own: a term at the start, a
\* term far from both ends behind another term of the query, white space at
\* the ends, no term of the query, and contents of 200 and of more than 200
\* characters.
SnippetContents ==
    {"Fences - rules.",
     Repeat(".", 10) \o "Noise" \o Repeat(".", 105) \o "Fence" \o Repeat(".", 130),
     Repeat("-", 100) \o "fence" \o Repeat("-", 100),
     Repeat("-", 101) \o "Fence" \o Repeat("-", 101),
     "  Fence rules \n",
     Repeat(" ", 120) \o "noise" \o Repeat(" ", 120),
     Repeat("ab c", 50),
     Repeat("ab c", 50) \o "d",
     " " \o Repeat("ab c", 50),
     ""}

SnippetQueries ==
    {"fence noise", "noise fence", "fencing", "FENCE", "zoning", "", "rule of fences",
     "fences"}

\* the values of the three functions on these inputs, computed once
TokenizeTable == [text \in TokenizeInputs \cup SnippetQueries |-> tokenize(text)]

StemOfWord == [word \in StemInputs |-> simple_stem(word)]

SnippetOfCall ==
    [content \in SnippetContents |->
        [query \in SnippetQueries |-> create_snippet(content, TokenizeTable[query])]]

\* tokenize(text), lines 67-98
Tokenize(text) ==
    /\ fn_call' = [op |-> "tokenize", text |-> text, result |-> TokenizeTable[text]]

\* simple_stem(word), lines 101-151
SimpleStem(word) ==
    /\ fn_call' = [op |-> "simple_stem", word |-> word, result |-> StemOfWord[word]]

\* self._create_snippet(doc["content"], query_tokens), line 313, with the
\* query_tokens of line 265
CreateSnippet(content, query) ==
    /\ fn_call' = [op |-> "create_snippet", content |-> content,
                   query_terms |-> TokenizeTable[query],
                   result |-> SnippetOfCall[content][query]]

TextNext ==
    \/ \E text \in TokenizeInputs :
          Tokenize(text) /\ UNCHANGED <<emb_vars, lex_vars, srv_vars>>
    \/ \E word \in StemInputs :
          SimpleStem(word) /\ UNCHANGED <<emb_vars, lex_vars, srv_vars>>
    \/ \E content \in SnippetContents, query \in SnippetQueries :
          CreateSnippet(content, query) /\ UNCHANGED <<emb_vars, lex_vars, srv_vars>>

SpecText == Init /\ [][TextNext]_vars

-----------------------------------------------------------------------------
(* The MCP server, server.py.  The SearchIndex that the module-level       *)
(* search_index refers to is the one in documents, inverted_index,         *)
(* doc_lengths, idf_scores and num_docs; lex_file is the snapshot          *)
(* data/processed/search_index.json, which build_index_from_file writes.   *)

\* SearchIndex(), index.py:169-187, as a value
EmptyIndex ==
    [documents |-> <<>>, inverted_index |-> <<>>, doc_lengths |-> <<>>,
     idf_scores |-> <<>>, num_docs |-> 0]

\* index.add_document(doc), index.py:189-223, on an index given as a value
AddedTo(index, doc) ==
    LET stemmed_tokens == StemTable[IndexingText(doc)]
    IN  [documents |-> Append(index.documents, doc),
         inverted_index |-> AppendPostings(index.inverted_index,
                                           NextDocId(index.documents), stemmed_tokens),
         doc_lengths |-> Append(index.doc_lengths, DocLength(stemmed_tokens)),
         idf_scores |-> index.idf_scores,
         num_docs |-> index.num_docs + 1]

\* index.py:432-436: the first n documents added to a new index
RECURSIVE IndexOfDocuments(_, _)
IndexOfDocuments(docs, n) ==
    IF n = 0 THEN EmptyIndex ELSE AddedTo(IndexOfDocuments(docs, n - 1), docs[n])

\* index.py:413-448: the data that build_index_from_file saves for docs
build_index_from_file(docs) ==
    LET index == IndexOfDocuments(docs, Len(docs))
    IN  [documents |-> index.documents,
         inverted_index |-> [term \in DOMAIN index.inverted_index |->
                                [k \in 1..Len(index.inverted_index[term]) |->
                                    JsonTuple(index.inverted_index[term][k])]],
         idf_scores |-> IdfScores(index.inverted_index, index.idf_scores, index.num_docs),
         doc_lengths |-> index.doc_lengths,
         num_docs |-> index.num_docs]

\* the number of documents of the largest collection
ManyDocuments == 12

\* the collections of documents from which the snapshot is built
Collections ==
    {<<>>,
     <<[title |-> "Fence", content |-> "Fences - rules."],
       [title |-> "Noise", content |-> "Noises - rules."],
       [title |-> "The Noise of fences", content |-> "Fencing is noisy; the fenced yards."]>>,
     <<ExactDoc, LongDoc>>,
     [k \in 1..ManyDocuments |-> [title |-> "Fence", content |-> "Fences - rules."]]}

\* the snapshots, computed once
Snapshots == {build_index_from_file(docs) : docs \in Collections}

\* python -m src.search.index (index.py:452-456) writes the snapshot
WriteSnapshot(data) ==
    /\ lex_file' = [written |-> TRUE, data |-> data]
    /\ UNCHANGED <<documents, inverted_index, doc_lengths, idf_scores, num_docs, lex_return,
                   search_index, tool_result, n_loads>>

\* the snapshot is removed from the disk
RemoveSnapshot ==
    /\ lex_file.written
    /\ lex_file' = NoFile
    /\ UNCHANGED <<documents, inverted_index, doc_lengths, idf_scores, num_docs, lex_return,
                   search_index, tool_result, n_loads>>

\* an argument that is not in the dictionary
Missing == <<>>

\* the value of an argument that is in the dictionary
Given(value) == <<value>>

\* arguments.get(key, default)
Get(argument, default) == IF argument = Missing THEN default ELSE argument[1]

\* the default of max_results, line 225 (and 141)
DefaultMaxResults == 5

\* the largest max_results, line 225 (and 143)
MaxMaxResults == 10

\* the queries that are not empty and the values of max_results that the
\* tool calls give
ServerQueries == {"noise fence", "The of!", "zoning"}

GivenLimits == {-1, 0, 1, 11, 50}

\* the values that line 225 makes of them
ServerLimits == {Min(m, MaxMaxResults) : m \in GivenLimits \cup {DefaultMaxResults}}

\* line 225
EffectiveMaxResults(arguments) ==
    Min(Get(arguments.max_results, DefaultMaxResults), MaxMaxResults)

\* get_index without the statement global search_index: the index is loaded
\* into a local variable
AfterGetIndexLocal(index) == "None"

\* lines 73 and 83: after get_index has loaded it, the global search_index
\* is the SearchIndex
AfterGetIndex(index) == index

\* get_index raises: line 77, the snapshot does not exist
GetIndexRaises == search_index = "None" /\ ~lex_file.written

\* SearchIndex.load, index.py:386-410, of a snapshot
Loaded(data) ==
    [documents |-> data.documents, inverted_index |-> LoadInvertedIndex(data),
     doc_lengths |-> data.doc_lengths, idf_scores |-> data.idf_scores,
     num_docs |-> data.num_docs]

\* the SearchIndex that get_index returns, lines 73-86: the one it loads
\* from the snapshot if search_index is None, and else search_index
IndexGot == IF search_index = "None" THEN Loaded(lex_file.data) ELSE self

\* get_index, lines 63-86, when it returns index: what it leaves of the
\* SearchIndex and of the module
get_index(index) ==
    /\ documents' = index.documents
    /\ idf_scores' = index.idf_scores
    /\ doc_lengths' = index.doc_lengths
    /\ num_docs' = index.num_docs
    /\ lex_return' = [op |-> "get_index"]
    /\ IF search_index = "None"
       THEN /\ search_index' = AfterGetIndex("SearchIndex")
            /\ n_loads' = n_loads + 1
       ELSE UNCHANGED <<search_index, n_loads>>

\* index.search(query, max_results=max_results), line 237, on the indexes
\* that get_index can return, computed once
ServerSearch ==
    [index \in {Loaded(data) : data \in Snapshots} |->
        [query \in Queries |->
            [max_results \in ServerLimits |-> SearchResultsOf(index, query, max_results)]]]

\* lines 199-207: the exception of get_index becomes an error result
ExceptionResult(name, arguments) ==
    /\ tool_result' = [name |-> name, arguments |-> arguments, isError |-> TRUE,
                       kind |-> "exception"]
    /\ UNCHANGED <<documents, inverted_index, doc_lengths, idf_scores, num_docs, lex_return,
                   search_index, n_loads>>

\* the test query is None, which the default "" of line 224 never passes
NoQueryIsNone(query) == FALSE

\* line 227: not query
NoQuery(query) == query = ""

\* handle_search, lines 210-278
handle_search(arguments) ==
    LET query == Get(arguments.query, "")
        max_results == EffectiveMaxResults(arguments)
    IN  IF NoQuery(query)
        THEN /\ tool_result' = [name |-> "search_ordinance", arguments |-> arguments,
                                isError |-> TRUE, kind |-> "no_query"]
             /\ UNCHANGED <<documents, inverted_index, doc_lengths, idf_scores, num_docs,
                            lex_return, search_index, n_loads>>
        ELSE IF GetIndexRaises
        THEN ExceptionResult("search_ordinance", arguments)
        ELSE LET index == IndexGot
                 results == ServerSearch[index][query][max_results]
             IN  /\ get_index(index)
                 /\ inverted_index' =
                        IndexAfterSearch(index.inverted_index, StemTable[query], 1)
                 /\ tool_result' =
                        [name |-> "search_ordinance", arguments |-> arguments,
                         isError |-> FALSE,
                         kind |-> IF results = <<>> THEN "no_results" ELSE "results",
                         results |-> [k \in 1..Len(results) |->
                                         [title |-> results[k].document.title,
                                          score |-> results[k].score,
                                          snippet |-> results[k].snippet]]]

\* the content given for a document, lines 305-307
TruncationMarker == "\n\n[Content truncated. See full text at URL.]"

Truncated(content) ==
    IF Len(content) > DetailsLimit
    THEN SubSeq(content, 1, DetailsLimit) \o TruncationMarker
    ELSE content

\* the last document of docs whose title contains title
LastWithTitle(docs, title) ==
    LET with == {k \in 1..Len(docs) : Find(lower(docs[k].title), lower(title)) # -1}
    IN  IF with = {} THEN 0 ELSE CHOOSE k \in with : \A h \in with : k >= h

\* lines 298-299: the position of the first document of docs for which
\* title.lower() in doc.get("title", "").lower(), 0 when there is none
FirstWithTitle(docs, title) ==
    LET with == {k \in 1..Len(docs) : Find(lower(docs[k].title), lower(title)) # -1}
    IN  IF with = {} THEN 0 ELSE CHOOSE k \in with : \A h \in with : k <= h

\* handle_get_details, lines 281-328
handle_get_details(arguments) ==
    LET title == Get(arguments.title, "")
    IN  IF title = ""
        THEN /\ tool_result' = [name |-> "get_ordinance_details", arguments |-> arguments,
                                isError |-> TRUE, kind |-> "no_title"]
             /\ UNCHANGED <<documents, inverted_index, doc_lengths, idf_scores, num_docs,
                            lex_return, search_index, n_loads>>
        ELSE IF GetIndexRaises
        THEN ExceptionResult("get_ordinance_details", arguments)
        ELSE LET index == IndexGot
                 k == FirstWithTitle(index.documents, title)
             IN  /\ get_index(index)
                 /\ inverted_index' = index.inverted_index
                 /\ tool_result' =
                        IF k = 0
                        THEN [name |-> "get_ordinance_details", arguments |-> arguments,
                              isError |-> FALSE, kind |-> "not_found"]
                        ELSE [name |-> "get_ordinance_details", arguments |-> arguments,
                              isError |-> FALSE, kind |-> "details", doc_id |-> k - 1,
                              title |-> index.documents[k].title,
                              content |-> Truncated(index.documents[k].content)]

\* the tool calls that are made, <<name, arguments>>
ToolCalls ==
    {<<"search_ordinance", [query |-> query, max_results |-> max_results]>> :
        query \in {Missing, Given("")} \cup {Given(q) : q \in ServerQueries},
        max_results \in {Missing} \cup {Given(m) : m \in GivenLimits}}
    \cup {<<"get_ordinance_details", [title |-> title]>> :
            title \in {Missing, Given(""), Given("noise"), Given("ZONING CODE"),
                       Given("Appendix"), Given("parking"), Given("e")}}
    \cup {<<"list_ordinances", [chapter |-> Given("28")]>>}

\* call_tool, lines 166-207
call_tool(name, arguments) ==
    /\ UNCHANGED lex_file
    /\ IF name = "search_ordinance" THEN handle_search(arguments)
       ELSE IF name = "get_ordinance_details" THEN handle_get_details(arguments)
       ELSE /\ tool_result' = [name |-> name, arguments |-> arguments, isError |-> TRUE,
                               kind |-> "unknown_tool"]
            /\ UNCHANGED <<documents, inverted_index, doc_lengths, idf_scores, num_docs,
                           lex_return, search_index, n_loads>>

ServerNext ==
    \/ \E data \in Snapshots :
          WriteSnapshot(data) /\ UNCHANGED <<emb_vars, txt_vars>>
    \/ RemoveSnapshot /\ UNCHANGED <<emb_vars, txt_vars>>
    \/ \E call \in ToolCalls :
          call_tool(call[1], call[2]) /\ UNCHANGED <<emb_vars, txt_vars>>

SpecServer == Init /\ [][ServerNext]_vars

\* the calls of add_documents on an index that is saved and loaded
PersistCalls == {<<n, b>> : n \in 0..PersistInput, b \in 1..PersistBatch}

\* The behaviours with save and load on both kinds of index, in which one
\* of the two indexes is in use and the other one stays as constructed.
PersistNext ==
    \/ \E call \in PersistCalls :
          LexInit /\ AddDocuments([d \in 1..call[1] |-> d], call[2]) /\ UNCHANGED not_emb_vars
    \/ LexInit /\ EmbedReturns /\ UNCHANGED not_emb_vars
    \/ \E outcome \in EmbedOutcomes :
          LexInit /\ EmbedRaises(outcome) /\ UNCHANGED not_emb_vars
    \/ LexInit /\ BackoffOver /\ UNCHANGED not_emb_vars
    \/ LexInit /\ RetryReturns /\ UNCHANGED not_emb_vars
    \/ \E outcome \in EmbedOutcomes :
          LexInit /\ RetryRaises(outcome) /\ UNCHANGED not_emb_vars
    \/ LexInit /\ DelayOver /\ UNCHANGED not_emb_vars
    \/ LexInit /\ Cancel /\ UNCHANGED not_emb_vars
    \/ \E q \in QueryVectors, m \in EmbMaxResults :
          LexInit /\ EmbSearch(q, m) /\ UNCHANGED not_emb_vars
    \/ \E m \in EmbMaxResults :
          LexInit /\ EmbSearchEmbedderRaises(m) /\ UNCHANGED not_emb_vars
    \/ LexInit /\ EmbSave /\ UNCHANGED not_emb_vars
    \/ LexInit /\ EmbLoad /\ UNCHANGED not_emb_vars
    \/ \E doc \in Documents : EmbInit /\ add_document(doc) /\ UNCHANGED not_lex_vars
    \/ EmbInit /\ build_idf_scores /\ UNCHANGED not_lex_vars
    \/ \E call \in SearchCalls : EmbInit /\ search(call[1], call[2]) /\ UNCHANGED not_lex_vars
    \/ EmbInit /\ save /\ UNCHANGED not_lex_vars
    \/ EmbInit /\ load /\ UNCHANGED not_lex_vars

SpecPersist == Init /\ [][PersistNext]_vars

Next == EmbNext \/ LexNext

Spec == Init /\ [][Next]_vars

-----------------------------------------------------------------------------
(* Properties of the embedding index. *)

\* the batch add_documents is working on, and the number of batches
CurrentBatch == SubSeq(add_input, add_i + 1, Min(add_i + add_batch_size, Len(add_input)))

NumBatches == CeilDiv(Len(add_input), add_batch_size)

IndexUnchanged == emb_documents' = emb_documents /\ emb_embeddings' = emb_embeddings

\* C3: a batch whose embed call fails with a rate-limit-classified error is
\* re-issued once, after the backoff, and never a third time; when the retry
\* returns, the batch is stored, add_documents goes on to the next batch (or
\* returns) and no error leaves it.
C3_RetryOnce ==
    /\ [](batch_calls <= 2)
    /\ [](add_pc = "done" => add_error = "none")
    /\ [][(add_pc = "embed" /\ call_outcome' = "rate")
            => /\ add_pc' = "backoff"
               /\ n_backoffs' = n_backoffs + 1
               /\ add_error' = "none"
               /\ add_i' = add_i
               /\ IndexUnchanged]_vars
    /\ [][(add_pc = "backoff" /\ add_pc' # "backoff")
            => \/ add_pc' = "cancelled"
               \/ /\ add_pc' = "retry"
                  /\ add_i' = add_i
                  /\ batch_calls' = 2
                  /\ n_calls' = n_calls + 1
                  /\ in_flight' = {[start |-> add_i, texts |-> CurrentBatch]}]_vars
    /\ [][(add_pc = "retry" /\ call_outcome' = "ok")
            => /\ emb_documents' = emb_documents \o CurrentBatch
               /\ Len(emb_embeddings') = Len(emb_documents')
               /\ add_error' = "none"
               /\ add_pc' = IF add_i + add_batch_size < Len(add_input)
                            THEN "delay" ELSE "done"]_vars
    /\ [][(add_pc = "delay" /\ add_pc' = "embed")
            => /\ add_i' = add_i + add_batch_size
               /\ batch_calls' = 1]_vars

\* a retried batch was stored and add_documents returned, with every document
C3_Witness ==
    /\ add_pc = "done"
    /\ n_backoffs >= 1
    /\ add_error = "none"
    /\ Len(add_input) > add_batch_size
    /\ emb_documents = add_input

\* C4: when ingestion has halted on a failure at the batch that starts at
\* add_i, the index holds the documents and the vectors of the batches before
\* it, in input order, and nothing else; a search returns them.
C4_HaltKeepsEarlierBatches ==
    add_pc = "failed" =>
        /\ add_i % add_batch_size = 0
        /\ add_i < Len(add_input)
        /\ emb_documents = SubSeq(add_input, 1, add_i)
        /\ emb_embeddings = [k \in 1..add_i |-> VectorOfText(add_input[k])]
        /\ \A q \in QueryVectors, m \in EmbMaxResults :
              LET r == EmbSearchReturn(q, m)
              IN  /\ r.state = "returned"
                  /\ Len(r.results) = Min(m, add_i)
                  /\ \A k \in 1..Len(r.results) : r.results[k].document \in 1..add_i
        /\ LET r == EmbSearchReturn(<<1, 0>>, Len(add_input))
           IN  {r.results[k].document : k \in 1..Len(r.results)} = 1..add_i

\* the retry of a batch failed after two batches had been stored
C4_Witness ==
    /\ add_pc = "failed"
    /\ batch_calls = 2
    /\ Len(emb_documents) >= 2 * add_batch_size

\* C5: without a failure, add_documents issues one embed call per batch, the
\* batches being the contiguous slices of batch_size documents of the input
\* (the last one possibly shorter), ceil(n / batch_size) calls in all, and it
\* sleeps once after every batch but the last.
C5_BatchesAndDelays ==
    (n_failed = 0 /\ add_pc \notin {"idle", "cancelled"}) =>
        /\ n_backoffs = 0
        /\ add_pc = "done" =>
              /\ n_calls = NumBatches
              /\ n_delays = IF n_calls = 0 THEN 0 ELSE n_calls - 1
              /\ emb_documents = add_input
        /\ add_pc = "embed" =>
              /\ add_i % add_batch_size = 0
              /\ add_i < Len(add_input)
              /\ n_calls = (add_i \div add_batch_size) + 1
              /\ n_delays = n_calls - 1
              /\ in_flight = {[start |-> add_i, texts |-> CurrentBatch]}
              /\ Len(CurrentBatch) = IF n_calls < NumBatches
                                     THEN add_batch_size
                                     ELSE Len(add_input) - add_i
              /\ Len(CurrentBatch) \in 1..add_batch_size
        /\ add_pc = "delay" =>
              /\ n_delays = n_calls
              /\ n_calls < NumBatches

\* 12 documents in batches of 5: three calls and two delays
C5_Witness ==
    /\ add_pc = "done"
    /\ Len(add_input) = 12
    /\ add_batch_size = 5
    /\ n_failed = 0
    /\ n_calls = 3
    /\ n_delays = 2

\* C6: a failure of the first call of a batch that is not taken for a rate
\* limit leaves add_documents at once: no backoff, no second call for the
\* batch, and after it no call for any batch.
C6_NoRetryOfOtherFailures ==
    /\ [][(add_pc = "embed" /\ call_outcome' = "other")
            => /\ add_pc' = "failed"
               /\ add_error' = "other"
               /\ batch_calls' = 1
               /\ n_calls' = n_calls
               /\ n_backoffs' = n_backoffs
               /\ in_flight' = {}
               /\ IndexUnchanged]_vars
    /\ [][add_pc = "failed"
            => /\ add_pc' = "failed"
               /\ add_error' = add_error
               /\ n_calls' = n_calls
               /\ n_backoffs' = n_backoffs
               /\ in_flight' = {}
               /\ IndexUnchanged]_vars

\* the first call of a batch failed otherwise, with batches left to do
C6_Witness ==
    /\ add_pc = "failed"
    /\ add_error = "other"
    /\ batch_calls = 1
    /\ n_backoffs = 0
    /\ add_i > 0
    /\ add_i + add_batch_size < Len(add_input)

\* C7: wherever another task can see the index (each state of the model is an
\* await, the return, a failure or the cancellation of add_documents),
\* documents and embeddings have the same length, embeddings[k] is the vector
\* of documents[k], and the index holds whole batches of the input only.
C7_AppendIsAtomic ==
    /\ Len(emb_documents) = Len(emb_embeddings)
    /\ \A k \in 1..Len(emb_documents) : emb_embeddings[k] = VectorOfText(emb_documents[k])
    /\ Len(emb_documents) <= Len(add_input)
    /\ emb_documents = SubSeq(add_input, 1, Len(emb_documents))
    /\ \/ Len(emb_documents) % add_batch_size = 0
       \/ Len(emb_documents) = Len(add_input)

\* a call in flight was cancelled after an earlier batch had been stored
C7_Witness ==
    /\ add_pc = "cancelled"
    /\ call_outcome = "cancelled"
    /\ Len(emb_documents) > 0
    /\ Len(emb_documents) < Len(add_input)

C9_MismatchFails ==
    emb_search.state = "returned" =>
        \A k \in 1..Len(emb_search.results) :
            Len(emb_search.query) = Len(emb_embeddings[emb_search.results[k].doc_idx])

-----------------------------------------------------------------------------
(* Properties of the lexical index.  lex_return is what the last call      *)
(* returned, so the index is still the one that call ran on.               *)

\* build_idf_scores has run since the last add_document
IdfBuilt ==
    idf_scores = [term \in DOMAIN inverted_index |->
                     Idf(num_docs, Len(inverted_index[term]))]

LastQueryStems == StemTable[lex_return.query]

HasPosting(term, doc_id) ==
    /\ term \in DOMAIN inverted_index
    /\ \E p \in 1..Len(inverted_index[term]) : inverted_index[term][p][1] = doc_id

\* the position in the query of the first stem with a posting for doc_id
FirstReach(query_stems, doc_id) ==
    CHOOSE k \in 1..Len(query_stems) :
        /\ HasPosting(query_stems[k], doc_id)
        /\ \A h \in 1..(k - 1) : ~HasPosting(query_stems[h], doc_id)

\* C1, as claimed: on a built index, of two returned documents with equal
\* scores the one with the smaller document id comes first.
C1_TiesByDocumentId ==
    (lex_return.op = "search" /\ IdfBuilt) =>
        \A j, k \in 1..Len(lex_return.results) :
            (j < k /\ lex_return.results[j].score = lex_return.results[k].score)
                => lex_return.results[j].doc_id < lex_return.results[k].doc_id

\* C1, amended: of two returned documents with equal scores, the one the
\* scoring loop reached first comes first: the one whose first matching
\* query stem stands earlier in the query and, for the same stem, the one
\* with the smaller document id.
C1_TiesByFirstReach ==
    lex_return.op = "search" =>
        \A j, k \in 1..Len(lex_return.results) :
            (j < k /\ lex_return.results[j].score = lex_return.results[k].score)
                => LET dj == lex_return.results[j].doc_id
                       dk == lex_return.results[k].doc_id
                       rj == FirstReach(LastQueryStems, dj)
                       rk == FirstReach(LastQueryStems, dk)
                   IN  rj < rk \/ (rj = rk /\ dj < dk)

\* on a built index, two documents with the same positive score, reached
\* through different query stems, the later added one first
C1_Witness ==
    /\ lex_return.op = "search"
    /\ IdfBuilt
    /\ \E j, k \in 1..Len(lex_return.results) :
          /\ j < k
          /\ lex_return.results[j].score = lex_return.results[k].score
          /\ lex_return.results[j].score > 0
          /\ lex_return.results[j].doc_id > lex_return.results[k].doc_id
          /\ lex_return.results[j].matched_terms # lex_return.results[k].matched_terms

\* the term score of doc_id for term, 0 without a posting
PostingScore(term, doc_id) ==
    IF HasPosting(term, doc_id)
    THEN LET p == CHOOSE q \in 1..Len(inverted_index[term]) :
                      inverted_index[term][q][1] = doc_id
         IN  TermScore(inverted_index[term][p][2],
                       IF term \in DOMAIN idf_scores THEN idf_scores[term] ELSE 0,
                       doc_lengths[doc_id + 1])
    ELSE 0

RECURSIVE SumOver(_, _)
SumOver(f, S) ==
    IF S = {} THEN 0
    ELSE LET x == CHOOSE y \in S : TRUE IN f[x] + SumOver(f, S \ {x})

\* C2, as claimed: the documents returned and their scores are those of the
\* query with every stem taken once.
C2_OncePerDistinctStem ==
    lex_return.op = "search" =>
        LET once == RankedDocs(AccumulateDistinct(self, LastQueryStems),
                              lex_return.max_results)
        IN  /\ Len(lex_return.results) = Len(once)
            /\ \A k \in 1..Len(once) :
                  /\ lex_return.results[k].doc_id = once[k].doc_id
                  /\ lex_return.results[k].score = once[k].score

\* C2, amended: a term score is added once per occurrence of the stem in the
\* stemmed query: the score of a returned document is the sum, over the
\* distinct stems, of the stem's term score for the document times the
\* number of times the stem occurs in the query.
C2_OncePerOccurrence ==
    lex_return.op = "search" =>
        LET stems == LastQueryStems
            terms == {stems[k] : k \in 1..Len(stems)}
        IN  \A k \in 1..Len(lex_return.results) :
                LET doc_id == lex_return.results[k].doc_id
                IN  lex_return.results[k].score =
                        SumOver([t \in terms |-> Count(stems, t) * PostingScore(t, doc_id)],
                                terms)

\* a query with a repeated stem returned a document that stem matches, with
\* a positive score
C2_Witness ==
    /\ lex_return.op = "search"
    /\ \E k \in 1..Len(lex_return.results) :
          /\ lex_return.results[k].score > 0
          /\ \E t \in lex_return.results[k].matched_terms :
                /\ Count(LastQueryStems, t) >= 2
                /\ PostingScore(t, lex_return.results[k].doc_id) > 0

\* C10: a search whose query is empty after tokenization and stemming
\* returns the empty list, whatever the index holds.
C10_VacuousQueryReturnsNothing ==
    (lex_return.op = "search" /\ lex_return.query \in VacuousQueries) =>
        lex_return.results = <<>>

\* a query of stop words only, on a built index with a document that holds
\* these words, and max_results above 0
C10_Witness ==
    /\ lex_return.op = "search"
    /\ lex_return.query = "The of!"
    /\ lex_return.max_results > 0
    /\ lex_return.results = <<>>
    /\ IdfBuilt
    /\ num_docs >= 2
    /\ \E k \in 1..Len(documents) : documents[k].title = "The Noise of fences"

\* the ids of the documents that have a posting for a stem of the last query
MatchingDocs ==
    {doc_id \in 0..(Len(documents) - 1) :
        \E k \in 1..Len(LastQueryStems) : HasPosting(LastQueryStems[k], doc_id)}

ReturnedDocs == {lex_return.results[k].doc_id : k \in 1..Len(lex_return.results)}

\* the term score of doc_id for a term that has an entry in idf_scores
StoredIdfScore(term, doc_id) ==
    IF HasPosting(term, doc_id)
    THEN LET p == CHOOSE q \in 1..Len(inverted_index[term]) :
                      inverted_index[term][q][1] = doc_id
         IN  TermScore(inverted_index[term][p][2], idf_scores[term],
                       doc_lengths[doc_id + 1])
    ELSE 0

\* C11: a search on an index on which build_idf_scores never ran returns
\* the documents that match a stem of the query (as many of them as
\* max_results allows), each with score 0; and on any index a stem without
\* an entry in idf_scores, as one added since the last build_idf_scores,
\* adds 0: a score is the sum of the term scores of the stems with an entry.
C11_UnbuiltIdfScoresZero ==
    lex_return.op = "search" =>
        /\ idf_scores = <<>> =>
              /\ ReturnedDocs \subseteq MatchingDocs
              /\ Len(lex_return.results) =
                     Min(Max(lex_return.max_results, 0), Cardinality(MatchingDocs))
              /\ \A k \in 1..Len(lex_return.results) : lex_return.results[k].score = 0
        /\ LET stems == LastQueryStems
               known == {stems[k] : k \in 1..Len(stems)} \cap DOMAIN idf_scores
           IN  \A k \in 1..Len(lex_return.results) :
                   lex_return.results[k].score =
                       SumOver([t \in known |->
                                   Count(stems, t)
                                       * StoredIdfScore(t, lex_return.results[k].doc_id)],
                               known)

\* build_idf_scores never ran, and a search returned two documents
C11_Witness ==
    /\ lex_return.op = "search"
    /\ idf_scores = <<>>
    /\ Len(lex_return.results) >= 2
    /\ Cardinality(MatchingDocs) >= 2

\* C12: every result of a search has matched terms, and its matched terms
\* are exactly the stems of the query that have a posting for its document;
\* a document without such a stem is not returned.
C12_MatchedTermsAreTheMatchingStems ==
    lex_return.op = "search" =>
        /\ ReturnedDocs \subseteq MatchingDocs
        /\ \A k \in 1..Len(lex_return.results) :
              /\ lex_return.results[k].matched_terms # {}
              /\ lex_return.results[k].matched_terms =
                     {LastQueryStems[h] : h \in
                         {g \in 1..Len(LastQueryStems) :
                             HasPosting(LastQueryStems[g], lex_return.results[k].doc_id)}}

\* a result with two matched terms, while another document of the index
\* matches no stem of the query and is not returned
C12_Witness ==
    /\ lex_return.op = "search"
    /\ \E k \in 1..Len(lex_return.results) :
          Cardinality(lex_return.results[k].matched_terms) >= 2
    /\ lex_return.max_results > Len(lex_return.results)
    /\ \E doc_id \in 0..(Len(documents) - 1) : doc_id \notin MatchingDocs

\* the state of the SearchIndex that load builds from the data of a file
LoadedIndex(data) ==
    [documents |-> data.documents,
     inverted_index |-> LoadInvertedIndex(data),
     idf_scores |-> data.idf_scores,
     doc_lengths |-> data.doc_lengths,
     num_docs |-> data.num_docs]

\* the state of the SearchIndex in use
CurrentIndex ==
    [documents |-> documents, inverted_index |-> inverted_index,
     idf_scores |-> idf_scores, doc_lengths |-> doc_lengths, num_docs |-> num_docs]

TermsOf(doc_id) == {term \in DOMAIN inverted_index : HasPosting(term, doc_id)}

TermFrequency(term, doc_id) ==
    LET p == CHOOSE q \in 1..Len(inverted_index[term]) :
                 inverted_index[term][q][1] = doc_id
    IN  inverted_index[term][p][2]

\* C14: the length recorded for a document is the number of stemmed tokens
\* of its title, its title again and its content, joined by spaces, and
\* that number is the sum of the term frequencies of the postings that
\* carry the id of the document.
C14_DocLengthCountsStemmedTokens ==
    /\ Len(doc_lengths) = Len(documents)
    /\ \A k \in 1..Len(documents) :
          LET doc == documents[k]
              text == doc.title \o " " \o doc.title \o " " \o doc.content
          IN  /\ doc_lengths[k] = Len(StemTable[text])
              /\ doc_lengths[k] =
                     SumOver([term \in TermsOf(k - 1) |-> TermFrequency(term, k - 1)],
                             TermsOf(k - 1))

\* a document with a term that occurs several times in it, next to a
\* document without any token
C14_Witness ==
    /\ \E k \in 1..Len(documents) :
          /\ doc_lengths[k] >= 5
          /\ \E term \in TermsOf(k - 1) : TermFrequency(term, k - 1) >= 2
          /\ Cardinality(TermsOf(k - 1)) < doc_lengths[k]
    /\ \E k \in 1..Len(documents) : doc_lengths[k] = 0 /\ TermsOf(k - 1) = {}

\* C15: when build_idf_scores returns, of two terms of the index the one in
\* no more documents than the other has an IDF value no smaller, no term is
\* in more documents than the index holds, and no IDF value is below 0.
C15_IdfDecreasesWithDocumentFrequency ==
    lex_return.op = "build_idf_scores" =>
        /\ \A a, b \in DOMAIN inverted_index :
              Len(inverted_index[a]) <= Len(inverted_index[b])
                  => idf_scores[a] >= idf_scores[b]
        /\ \A a \in DOMAIN inverted_index :
              /\ Len(inverted_index[a]) <= num_docs
              /\ idf_scores[a] >= 0

\* build_idf_scores returned on an index with terms in one, in two and in
\* all of its three documents
C15_Witness ==
    /\ lex_return.op = "build_idf_scores"
    /\ num_docs = 3
    /\ \E a, b, c \in DOMAIN inverted_index :
          /\ Len(inverted_index[a]) = 1
          /\ Len(inverted_index[b]) = 2
          /\ Len(inverted_index[c]) = 3
          /\ idf_scores[a] > idf_scores[b]
          /\ idf_scores[b] > idf_scores[c]
          /\ idf_scores[c] = 0

\* the IDF table of the index as it stands
CurrentIdf ==
    [term \in DOMAIN inverted_index |-> Idf(num_docs, Len(inverted_index[term]))]

\* C16: when build_idf_scores returns, the IDF table has an entry for the
\* terms of the inverted index and no other, each computed from the
\* document count and the document frequency of that moment; and one more
\* build_idf_scores would leave the table as it is.
C16_BuildIdfIsIdempotentAndComplete ==
    lex_return.op = "build_idf_scores" =>
        /\ DOMAIN idf_scores = DOMAIN inverted_index
        /\ idf_scores = CurrentIdf
        /\ IdfScores(inverted_index, idf_scores, num_docs) = idf_scores

\* build_idf_scores returned on an index that had been built and saved with
\* fewer documents: the values written before are not the current ones
C16_Witness ==
    /\ lex_return.op = "build_idf_scores"
    /\ lex_file.written
    /\ lex_file.data.idf_scores # <<>>
    /\ lex_file.data.num_docs < num_docs
    /\ \E term \in DOMAIN lex_file.data.idf_scores :
          lex_file.data.idf_scores[term] # idf_scores[term]

\* C17: add_document returns the number of documents the index held and
\* stores its document there, leaving the documents before it in place;
\* document count, documents and document lengths are always as many, and
\* every posting carries the id of a stored document.
C17_IdsFollowInsertionOrder ==
    /\ [](/\ num_docs = Len(documents)
          /\ Len(doc_lengths) = Len(documents)
          /\ lex_return.op = "add_document" => lex_return.value = Len(documents) - 1
          /\ \A term \in DOMAIN inverted_index :
                \A p \in 1..Len(inverted_index[term]) :
                    inverted_index[term][p][1] \in 0..(Len(documents) - 1))
    /\ [][lex_return'.op = "add_document" =>
            /\ Len(documents') = Len(documents) + 1
            /\ lex_return'.value = Len(documents)
            /\ SubSeq(documents', 1, Len(documents)) = documents
            /\ SubSeq(doc_lengths', 1, Len(doc_lengths)) = doc_lengths]_vars

\* the third add_document returned 2
C17_Witness ==
    /\ lex_return.op = "add_document"
    /\ lex_return.value = 2
    /\ Len(documents) = 3
    /\ documents[3] # documents[1]

\* C18: the postings of a term are in strictly increasing order of
\* document id, and every term frequency is 1 or more.
C18_PostingsIncreaseByDocumentId ==
    \A term \in DOMAIN inverted_index :
        LET postings == inverted_index[term]
        IN  /\ \A p \in 1..Len(postings) : postings[p][2] >= 1
            /\ \A p, q \in 1..Len(postings) : p < q => postings[p][1] < postings[q][1]

\* a term with postings for three documents, one of them with the term
\* more than once
C18_Witness ==
    \E term \in DOMAIN inverted_index :
        /\ Len(inverted_index[term]) = 3
        /\ \E p \in 1..3 : inverted_index[term][p][2] >= 2

\* C19: every key of the inverted index has a posting.
C19_NoTermWithoutPostings ==
    \A term \in DOMAIN inverted_index : inverted_index[term] # <<>>

\* a search for a term that is not indexed returned, on an index that
\* holds a document without text and was saved and loaded
C19_Witness ==
    /\ lex_return.op = "search"
    /\ lex_return.query = "zoning"
    /\ inverted_index # <<>>
    /\ lex_file.written
    /\ Len(lex_file.data.documents) = Len(documents)
    /\ \E k \in 1..Len(documents) : documents[k].content = "" /\ doc_lengths[k] = 0

\* the accumulated score of doc_id for the last query
TotalScore(doc_id) ==
    LET stems == LastQueryStems
        terms == {stems[k] : k \in 1..Len(stems)}
    IN  SumOver([t \in terms |-> Count(stems, t) * PostingScore(t, doc_id)], terms)

\* C20: with max_results 0 or more, a search returns as many results as
\* there are matching documents, max_results at most, each document once,
\* in non-increasing order of score, and no matching document that is left
\* out has a score above the score of a result.
C20_TopMaxResults ==
    (lex_return.op = "search" /\ lex_return.max_results >= 0) =>
        LET results == lex_return.results
        IN  /\ Len(results) = Min(lex_return.max_results, Cardinality(MatchingDocs))
            /\ Cardinality(ReturnedDocs) = Len(results)
            /\ ReturnedDocs \subseteq MatchingDocs
            /\ \A j, k \in 1..Len(results) : j < k => results[j].score >= results[k].score
            /\ \A doc_id \in MatchingDocs \ ReturnedDocs :
                  \A k \in 1..Len(results) : TotalScore(doc_id) <= results[k].score

\* a search with max_results 1 returned the best of three matching
\* documents, which do not all have the same score
C20_Witness ==
    /\ lex_return.op = "search"
    /\ lex_return.max_results = 1
    /\ Len(lex_return.results) = 1
    /\ Cardinality(MatchingDocs) = 3
    /\ \E doc_id \in MatchingDocs : TotalScore(doc_id) < lex_return.results[1].score

-----------------------------------------------------------------------------
(* Properties of tokenize, simple_stem and _create_snippet.  fn_call is    *)
(* the last call and what it returned.                                     *)

\* the positions, from 0, at which term occurs in text
Occurrences(text, term) ==
    {i \in 0..(Len(text) - Len(term)) : SubSeq(text, i + 1, i + Len(term)) = term}

\* C27: the snippet is taken around the first occurrence in the content,
\* whatever the case of its letters, of the first token of the query, in
\* the order of the query, that occurs in it at all: up to 100 characters
\* before the occurrence and up to 100 after it, "..." in front iff the
\* window starts after the start of the content and "..." behind iff it
\* ends before its end, the white space at the ends of the whole removed.
\* When no token of the query occurs, the snippet is the content if that
\* has 200 characters or fewer, and else its first 200 characters and "...".
C27_SnippetAroundFirstQueryToken ==
    fn_call.op = "create_snippet" =>
        LET content == fn_call.content
            tokens == fn_call.query_terms
            lowered == lower(content)
            hits == {k \in 1..Len(tokens) : Occurrences(lowered, tokens[k]) # {}}
        IN  IF hits = {}
            THEN fn_call.result =
                     IF Len(content) > 200
                     THEN SubSeq(content, 1, 200) \o "..."
                     ELSE content
            ELSE LET k == CHOOSE j \in hits : \A h \in hits : j <= h
                     at == Occurrences(lowered, tokens[k])
                     pos == CHOOSE i \in at : \A h \in at : i <= h
                     first == IF pos > 100 THEN pos - 100 ELSE 0
                     last == IF pos + Len(tokens[k]) + 100 < Len(content)
                             THEN pos + Len(tokens[k]) + 100
                             ELSE Len(content)
                 IN  fn_call.result =
                         Strip((IF first > 0 THEN "..." ELSE "")
                                   \o SubSeq(content, first + 1, last)
                                   \o (IF last < Len(content) THEN "..." ELSE ""))

\* the snippet is around the first token of the query, more than 100
\* characters into the content and more than 100 before its end, while the
\* second token of the query occurs earlier in the content
C27_Witness ==
    /\ fn_call.op = "create_snippet"
    /\ Len(fn_call.query_terms) = 2
    /\ LET lowered == lower(fn_call.content)
           first == Occurrences(lowered, fn_call.query_terms[1])
           second == Occurrences(lowered, fn_call.query_terms[2])
       IN  /\ first # {} /\ second # {}
           /\ \E i \in second : \A h \in first : i < h
           /\ \A h \in first : h > 100 /\ h + 100 < Len(fn_call.content)
    /\ SubSeq(fn_call.result, 1, 3) = "..."
    /\ SubSeq(fn_call.result, Len(fn_call.result) - 2, Len(fn_call.result)) = "..."
    /\ Len(fn_call.result) = 211

\* the tokens from the k-th on occur one after the other in text from
\* position from on
RECURSIVE OccurInOrder(_, _, _, _)
OccurInOrder(tokens, k, text, from) ==
    IF k > Len(tokens) THEN TRUE
    ELSE LET at == {i \in Occurrences(text, tokens[k]) : i >= from}
         IN  /\ at # {}
             /\ OccurInOrder(tokens, k + 1, text,
                             (CHOOSE i \in at : \A h \in at : i <= h) + Len(tokens[k]))

LettersAndDigits ==
    {CharAt(LowerLetters, i) : i \in 1..Len(LowerLetters)}
        \cup {CharAt(Digits, i) : i \in 1..Len(Digits)}

\* C28, as claimed: every token that tokenize returns is made of lower-case
\* letters and digits only, has 2 characters or more and is no stop word,
\* and the tokens stand in the order they have in the text.
C28_TokensAreAlphanumeric ==
    fn_call.op = "tokenize" =>
        /\ \A k \in 1..Len(fn_call.result) :
              LET token == fn_call.result[k]
              IN  /\ \A i \in 1..Len(token) : CharAt(token, i) \in LettersAndDigits
                  /\ Len(token) >= 2
                  /\ token \notin STOP_WORDS
        /\ OccurInOrder(fn_call.result, 1, lower(fn_call.text), 0)

\* C29, as claimed: one suffix of the chain at most is removed, the first
\* that matches, from a token of more than 5 characters; else a token of
\* more than 3 characters that ends with one s, not two, loses it; any
\* other token is returned as it is.
C29_SingleTrailingS ==
    fn_call.op = "simple_stem" =>
        LET word == fn_call.word
            chain == <<"ing", "tion", "ment", "ness", "able", "ible", "ous", "ive", "ly",
                       "ed", "er", "es">>
            matching == {k \in 1..12 : EndsWith(word, chain[k])}
        IN  IF Len(word) > 5 /\ matching # {}
            THEN fn_call.result =
                     DropLast(word, Len(chain[CHOOSE k \in matching :
                                                  \A h \in matching : k <= h]))
            ELSE IF Len(word) > 3 /\ EndsWith(word, "s") /\ ~EndsWith(word, "ss")
                 THEN fn_call.result = DropLast(word, 1)
                 ELSE fn_call.result = word

\* C29, amended: one suffix of the chain at most is removed, the first that
\* matches, from a token of more than 5 characters; else a token of more
\* than 3 characters whose last character is s loses that one character,
\* also when the character before it is an s; any other token is returned
\* as it is.
C29_LastSRemoved ==
    fn_call.op = "simple_stem" =>
        LET word == fn_call.word
            chain == <<"ing", "tion", "ment", "ness", "able", "ible", "ous", "ive", "ly",
                       "ed", "er", "es">>
            matching == {k \in 1..12 : EndsWith(word, chain[k])}
        IN  IF Len(word) > 5 /\ matching # {}
            THEN fn_call.result =
                     DropLast(word, Len(chain[CHOOSE k \in matching :
                                                  \A h \in matching : k <= h]))
            ELSE IF Len(word) > 3 /\ EndsWith(word, "s")
                 THEN fn_call.result = DropLast(word, 1)
                 ELSE fn_call.result = word

\* a word of 5 characters in ss came back without its last s
C29_Witness ==
    /\ fn_call.op = "simple_stem"
    /\ Len(fn_call.word) = 5
    /\ EndsWith(fn_call.word, "ss")
    /\ fn_call.result = DropLast(fn_call.word, 1)

-----------------------------------------------------------------------------
(* The scores of the entries that SearchIndex.search returns.              *)

\* the stems of the last query that have a posting for doc_id
StemsMatching(doc_id) ==
    {LastQueryStems[k] : k \in 1..Len(LastQueryStems)}
        \cap {term \in DOMAIN inverted_index : HasPosting(term, doc_id)}

\* C25, as claimed: on an index on which build_idf_scores ran after the
\* last add_document, every entry that search returns has a score above 0.
C25_ScoresArePositive ==
    (lex_return.op = "search" /\ IdfBuilt) =>
        \A k \in 1..Len(lex_return.results) : lex_return.results[k].score > 0

\* C25, amended: on an index on which build_idf_scores ran after the last
\* add_document, every entry that search returns matches a stem of the
\* query and has a score of 0 or more; the score is 0 when every stem of
\* the query that the document matches occurs in every document of the
\* index, and the sum of the term scores is above 0 when one of them occurs
\* in fewer documents than the index holds.
C25_ZeroScoreWhenTermsAreEverywhere ==
    (lex_return.op = "search" /\ IdfBuilt) =>
        \A k \in 1..Len(lex_return.results) :
            LET matching == StemsMatching(lex_return.results[k].doc_id)
            IN  /\ matching # {}
                /\ lex_return.results[k].score >= 0
                /\ lex_return.results[k].score = 0
                       <=> \A term \in matching : Len(inverted_index[term]) = num_docs

\* on a built index of two documents or more, a search returned a document
\* with score 0, whose only matching stem is in every document, after a
\* document with a score above 0
C25_Witness ==
    /\ lex_return.op = "search"
    /\ IdfBuilt
    /\ num_docs >= 2
    /\ \E j, k \in 1..Len(lex_return.results) :
          /\ j < k
          /\ lex_return.results[j].score > 0
          /\ lex_return.results[k].score = 0
          /\ lex_return.results[k].matched_terms # {}
          /\ \A term \in lex_return.results[k].matched_terms :
                Len(inverted_index[term]) = num_docs

-----------------------------------------------------------------------------
(* The results of EmbeddingSearchIndex.search.                             *)

\* the step is a search that returned: nothing but emb_search may change
EmbSearchReturned ==
    /\ emb_search'.state = "returned"
    /\ UNCHANGED <<emb_documents, emb_embeddings, add_input, add_batch_size, add_i, add_pc,
                   add_error, in_flight, call_outcome, batch_calls, n_calls, n_failed,
                   n_delays, n_backoffs, emb_file>>

\* what search returned is the top max_results of all the stored vectors
TopOfAllVectors(call, embeddings) ==
    LET results == call.results
        returned == {results[k].doc_idx : k \in 1..Len(results)}
        Score(i) == cosine_similarity(call.query, embeddings[i])
    IN  /\ Len(results) = Min(call.max_results, Len(embeddings))
        /\ Cardinality(returned) = Len(results)
        /\ returned \subseteq 1..Len(embeddings)
        /\ \A k \in 1..Len(results) : results[k].score = Score(results[k].doc_idx)
        /\ \A j, k \in 1..Len(results) :
              j < k => ~ScoreLess(results[j].score, results[k].score)
        /\ \A i \in (1..Len(embeddings)) \ returned :
              \A k \in 1..Len(results) : ~ScoreLess(results[k].score, Score(i))

\* C24: a search with max_results 0 or more on an index of N stored vectors
\* returns min(max_results, N) results, each for another vector, in
\* non-increasing order of the similarity to the query vector, and no vector
\* left out has a similarity above that of a result; no similarity is too
\* low to be returned.
C24_NoScoreThreshold ==
    [][(EmbSearchReturned /\ emb_search'.max_results >= 0)
           => TopOfAllVectors(emb_search', emb_embeddings)]_vars

\* a search with max_results above the 3 vectors or more of the index
\* returned all of them, one with similarity 0 and one with a similarity
\* below 0 among them
C24_Witness ==
    /\ emb_search.state = "returned"
    /\ Len(emb_embeddings) >= 3
    /\ emb_search.max_results > Len(emb_embeddings)
    /\ Len(emb_search.results) = Len(emb_embeddings)
    /\ \E j, k \in 1..Len(emb_search.results) :
          /\ j < k
          /\ emb_search.results[j].score.num = 0
          /\ emb_search.results[k].score.num < 0

-----------------------------------------------------------------------------
(* What a search leaves of the two indexes.                                *)

\* C26: a step in which SearchIndex.search returns leaves documents, the
\* inverted index, the IDF table, the document lengths and the document
\* count as they were, and a step in which EmbeddingSearchIndex.search
\* returns or raises leaves the documents and the stored vectors as they
\* were; so a lexical search that follows a lexical search with the same
\* arguments returns the same results.
C26_SearchIsReadOnly ==
    [][/\ lex_return'.op = "search" =>
              /\ UNCHANGED <<documents, inverted_index, idf_scores, doc_lengths, num_docs>>
              /\ (/\ lex_return.op = "search"
                  /\ lex_return'.query = lex_return.query
                  /\ lex_return'.max_results = lex_return.max_results)
                     => lex_return'.results = lex_return.results
       /\ emb_search' # emb_search => UNCHANGED <<emb_documents, emb_embeddings>>]_vars

\* on a built index of two documents or more, a search returned nothing for
\* a query whose stem is no term of the inverted index
C26_Witness ==
    /\ lex_return.op = "search"
    /\ IdfBuilt
    /\ num_docs >= 2
    /\ LastQueryStems # <<>>
    /\ \A k \in 1..Len(LastQueryStems) : LastQueryStems[k] \notin DOMAIN inverted_index
    /\ lex_return.results = <<>>
    /\ lex_file.written

-----------------------------------------------------------------------------
(* Properties of the MCP server.  tool_result is the last tool call and    *)
(* what it returned; the SearchIndex is the one search_index refers to.    *)

\* C21, as claimed: whatever max_results a search_ordinance call gives, the
\* response lists 10 results at most, and 5 at most when it gives none.
C21_AtMostTenListed ==
    (tool_result.name = "search_ordinance" /\ ~tool_result.isError) =>
        /\ Len(tool_result.results) <= 10
        /\ tool_result.arguments.max_results = Missing => Len(tool_result.results) <= 5

\* the last call is search_ordinance with this query
SearchedFor(query) ==
    /\ tool_result.name = "search_ordinance"
    /\ tool_result.arguments.query = query

\* C22: a search_ordinance call without a query, or with the empty string
\* as its query, returns an error result that says that no query was
\* provided, and the step leaves search_index and the index as they were;
\* a call with a query of stop words only, when get_index returns, returns
\* a result that is no error and lists nothing.
C22_NoQueryIsAnError ==
    /\ [](SearchedFor(Missing) \/ SearchedFor(Given(""))
             => tool_result.isError /\ tool_result.kind = "no_query")
    /\ [][tool_result'.kind = "no_query"
              => UNCHANGED <<search_index, n_loads, documents, inverted_index, idf_scores,
                             doc_lengths, num_docs>>]_vars
    /\ []((SearchedFor(Given("The of!")) /\ tool_result.kind # "exception")
             => /\ ~tool_result.isError
                /\ tool_result.kind = "no_results"
                /\ tool_result.results = <<>>)

\* a call with the empty string as query returned the error with the
\* snapshot on the disk and search_index still None
C22_Witness ==
    /\ SearchedFor(Given(""))
    /\ tool_result.isError
    /\ lex_file.written
    /\ lex_file.data.num_docs >= 2
    /\ search_index = "None"
    /\ n_loads = 0

NeedsIndex(result) ==
    \/ result.name = "search_ordinance" /\ Get(result.arguments.query, "") # ""
    \/ result.name = "get_ordinance_details" /\ Get(result.arguments.title, "") # ""

====
